---- MODULE Spec2Model ----
(***************************************************************************)
(* A model of librdkafka's OpenSSL transport (rdkafka_ssl.c): the per      *)
(* connection session (connect, handshake, send, recv, close), the error   *)
(* classification, the endpoint name handling, the certificate loader and  *)
(* the process-wide init/term.  The OpenSSL library is the environment:    *)
(* every call into it is a nondeterministic choice over the results the    *)
(* library can give.                                                       *)
(***************************************************************************)
EXTENDS Integers, Sequences, FiniteSets, TLC

\* ---------------------------------------------------------------- bounds
\* Total number of bytes the caller submits through slices.
MaxBytes == 3
\* Largest contiguous segment of a slice or of a receive buffer.
MaxSeg == 2
\* Largest total writable capacity of a receive buffer.
MaxCap == 3
\* Longest peer certificate chain.
MaxChain == 2
\* Most entries one failing library call leaves in the error queue.
MaxQueue == 2
\* Bytes submitted, buffer capacity and bytes received on a session that is
\* followed through its whole life (connect to close).
SessBytes == 1
\* Longest host part of a broker nodename.
MaxHost == 5
\* Number of distinct key pairs a certificate or key source may hold.
MaxIdent == 2
\* CRYPTO_num_locks() is at most this.
MaxLocks == 2
\* Most calls of rd_kafka_ssl_init, and of rd_kafka_ssl_term, in one run.
MaxCalls == 2
\* Longest error queue handed to rd_kafka_ssl_error on its own.
MaxDrain == 4
\* The sessions other broker threads drive on the same context.
MaxOthers == 1
\* The longest ssl.key.password and the largest buffer the library hands
\* to the password callback.
MaxPass == 9

VARIABLES
    rk_conf,        \* rk->rk_conf.ssl (and the fields of rk_conf the file reads)
    rkb_nodename,   \* rkb->rkb_nodename, "host:port", a sequence of characters
    peer,           \* what the peer presents: its certificate chain
    rktrans_ssl,    \* rktrans->rktrans_ssl: "NULL" or "SSL"
    ssl,            \* the state of the SSL object rktrans_ssl points to
    rkb_state,      \* the broker connection as the lifecycle callbacks left it
    errQueue,       \* the thread's OpenSSL error queue, oldest first
    rd_errno,       \* the thread's errno / rd_socket_errno (0: none)
    slice,          \* the rd_slice_t handed to send
    wire,           \* the bytes SSL_write accepted, in order
    rbuf,           \* the rd_buf_t handed to recv
    inbound,        \* bytes the peer has sent that SSL_read has not returned
    last,           \* what the last call did (return value, diagnostics, ...)
    crashed,        \* the process died (a NULL session was dereferenced)
    ctx,            \* the SSL_CTX under construction / constructed
    crypto,         \* libcrypto's process-wide callbacks and this file's locks
    others          \* the sessions other broker threads drive on the same
                    \* rk_conf.ssl.ctx: "none", "handshake", "up" or "down"

sessVars == <<rkb_nodename, peer, rktrans_ssl, ssl, rkb_state,
              errQueue, rd_errno, slice, wire, rbuf, inbound, crashed>>
vars == <<rk_conf, sessVars, last, ctx, crypto, others>>

\* ------------------------------------------------------------ characters
\* A name is a sequence of characters; each character stands for its class:
\* "1" a decimal digit, "a" a letter a-f or A-F, "g" any other letter.
Digits == {"1"}
HexLetters == {"a"}
OtherLetters == {"g"}
Chars == Digits \cup HexLetters \cup OtherLetters \cup {".", ":", "[", "]", "%"}

\* strchr(name, c) != NULL
HasChar(name, c) == \E i \in 1..Len(name) : name[i] = c

\* strrchr(name, c): the index of the last c, 0 when there is none
strrchr(name, c) ==
    IF HasChar(name, c)
    THEN CHOOSE i \in 1..Len(name) :
            /\ name[i] = c
            /\ \A j \in (i+1)..Len(name) : name[j] # c
    ELSE 0

\* strspn(name, accept): the length of the longest prefix made of accept
strspn(name, accept) ==
    IF \A i \in 1..Len(name) : name[i] \in accept
    THEN Len(name)
    ELSE (CHOOSE i \in 1..Len(name) :
            /\ name[i] \notin accept
            /\ \A j \in 1..(i-1) : name[j] \in accept) - 1

\* "0123456789abcdefABCDEF:.[]%"
Ipv6Accept == Digits \cup HexLetters \cup {":", ".", "[", "]", "%"}
\* "0123456789."
Ipv4Accept == Digits \cup {"."}

\* The nodename with its ":port" suffix cut at the last colon.
EndpointName(nodename) ==
    LET t == strrchr(nodename, ":")
    IN  IF t # 0 THEN SubSeq(nodename, 1, t - 1) ELSE nodename

\* The test that guards SSL_set_tlsext_host_name: the name is not numerical.
IsNonNumerical(name) ==
    ~ \/ /\ HasChar(name, ":")
         /\ strspn(name, Ipv6Accept) = Len(name)
      \/ strspn(name, Ipv4Accept) = Len(name)

\* ------------------------------------------------------- error reporting
ErrEntries == {"e1", "unexpected message"}
NoErrstr == << >>

\* One queue entry as rd_snprintf("%s:%d: %s: %s") formats it.
FormatErr(e) == <<e>>

\* rd_kafka_ssl_error: drains the queue; logs every entry but the last and
\* leaves the last one, formatted, in errstr ("No error" for an empty queue).
rd_kafka_ssl_error_Mut(queue) ==
    [ errstr |-> IF queue = << >> THEN <<"No error">>
                 ELSE FormatErr(queue[Len(queue)]),
      logged |-> [i \in 1..Len(queue) |-> FormatErr(queue[i])],
      queue  |-> << >> ]
rd_kafka_ssl_error(queue) ==
    [ errstr |-> IF queue = << >> THEN <<"No error">>
                 ELSE FormatErr(queue[Len(queue)]),
      logged |-> [i \in 1..(Len(queue) - 1) |-> FormatErr(queue[i])],
      queue  |-> << >> ]

\* --------------------------------------------------------- I/O adapter
SslErrors == {"NONE", "SSL", "WANT_READ", "WANT_WRITE", "WANT_X509_LOOKUP",
              "SYSCALL", "ZERO_RETURN", "WANT_CONNECT", "WANT_ACCEPT"}

\* SSL_get_error(ssl, ret) for ret <= 0: an entry in the thread's error queue
\* decides first (a transport failure only when the failing call itself
\* reported one and nothing older is queued), then the session's own
\* condition.
SSL_get_error(cond, before, push) ==
    IF before # << >> THEN "SSL"
    ELSE IF push # << >>
         THEN (IF cond = "SYSCALL" THEN "SYSCALL" ELSE "SSL")
         ELSE cond

rd_strerror(e) == <<"strerror", ToString(e)>>

\* rd_kafka_transport_ssl_io_update: ret 0 and a poll request, or ret -1 and
\* a diagnostic; seen is the error queue and the errno it was called with.
NoSeen == [queue |-> << >>, errno |-> 0]
IoUpdateSyscall(serr, queue, errno, disconnected) ==
    IF serr = "WANT_READ"
    THEN [ret |-> 0, poll |-> {"POLLIN"}, errstr |-> NoErrstr,
          logged |-> << >>, queue |-> queue,
          seen |-> [queue |-> queue, errno |-> errno]]
    ELSE IF serr \in {"WANT_WRITE", "WANT_CONNECT"}
    THEN [ret |-> 0, poll |-> {"POLLOUT"}, errstr |-> NoErrstr,
          logged |-> << >>, queue |-> queue,
          seen |-> [queue |-> queue, errno |-> errno]]
    ELSE LET d  == rd_kafka_ssl_error(queue)
             dc == serr = "ZERO_RETURN" \/ (serr = "SYSCALL" /\ disconnected)
             os == serr = "SYSCALL" /\ ~disconnected /\ queue = << >>
         IN  [ret |-> -1, poll |-> {},
              errstr |-> IF dc THEN <<"Disconnected">>
                         ELSE IF os
                         THEN <<"SSL transport error: ">> \o rd_strerror(errno)
                         ELSE d.errstr,
              logged |-> IF dc \/ os THEN << >> ELSE d.logged,
              queue |-> IF dc \/ os THEN queue ELSE d.queue,
              seen |-> [queue |-> queue, errno |-> errno]]
\* SYSCALL is never taken for a disconnect.
rd_kafka_transport_ssl_io_update_Mut11(serr, queue, errno) ==
    IoUpdateSyscall(serr, queue, errno, FALSE)
\* SYSCALL with an empty error queue is a disconnect whatever the errno.
rd_kafka_transport_ssl_io_update_Mut12(serr, queue, errno) ==
    IoUpdateSyscall(serr, queue, errno, queue = << >>)
\* A condition that wants I/O is answered with the events in `want`.
IoUpdateWants(serr, queue, errno, want) ==
    IF serr \in DOMAIN want
    THEN [ret |-> 0, poll |-> want[serr], errstr |-> NoErrstr,
          logged |-> << >>, queue |-> queue,
          seen |-> [queue |-> queue, errno |-> errno]]
    ELSE LET d == rd_kafka_ssl_error(queue)
         IN  [ret |-> -1, poll |-> {}, errstr |-> d.errstr,
              logged |-> d.logged, queue |-> d.queue,
              seen |-> [queue |-> queue, errno |-> errno]]
\* The readiness requested is the opposite one.
rd_kafka_transport_ssl_io_update_Mut22(serr, queue, errno) ==
    IoUpdateWants(serr, queue, errno,
                  [x \in {"WANT_READ", "WANT_WRITE", "WANT_CONNECT"} |->
                      IF x = "WANT_READ" THEN {"POLLOUT"} ELSE {"POLLIN"}])
\* No readiness is requested when the library wants to write.
rd_kafka_transport_ssl_io_update_Mut30(serr, queue, errno) ==
    IoUpdateWants(serr, queue, errno,
                  [x \in {"WANT_READ", "WANT_WRITE", "WANT_CONNECT"} |->
                      IF x = "WANT_READ" THEN {"POLLIN"} ELSE {}])
rd_kafka_transport_ssl_io_update_Mut(serr, queue, errno) ==
    CASE serr = "WANT_READ" ->
            [ret |-> 0, poll |-> {"POLLIN"}, errstr |-> NoErrstr,
             logged |-> << >>, queue |-> queue,
             seen |-> [queue |-> queue, errno |-> errno]]
      [] serr = "WANT_WRITE" ->
            [ret |-> 0, poll |-> {"POLLOUT"}, errstr |-> NoErrstr,
             logged |-> << >>, queue |-> queue,
             seen |-> [queue |-> queue, errno |-> errno]]
      [] OTHER ->
            LET d == rd_kafka_ssl_error(queue)
            IN  [ret |-> -1, poll |-> {}, errstr |-> d.errstr,
                 logged |-> d.logged, queue |-> d.queue,
                 seen |-> [queue |-> queue, errno |-> errno]]
rd_kafka_transport_ssl_io_update(serr, queue, errno) ==
    CASE serr = "WANT_READ" ->
            [ret |-> 0, poll |-> {"POLLIN"}, errstr |-> NoErrstr,
             logged |-> << >>, queue |-> queue,
             seen |-> [queue |-> queue, errno |-> errno]]
      [] serr \in {"WANT_WRITE", "WANT_CONNECT"} ->
            [ret |-> 0, poll |-> {"POLLOUT"}, errstr |-> NoErrstr,
             logged |-> << >>, queue |-> queue,
             seen |-> [queue |-> queue, errno |-> errno]]
      [] serr = "SYSCALL" ->
            IF queue = << >> /\ errno = 0
            THEN [ret |-> -1, poll |-> {}, errstr |-> <<"Disconnected">>,
                  logged |-> << >>, queue |-> queue,
             seen |-> [queue |-> queue, errno |-> errno]]
            ELSE IF queue # << >>
            THEN LET d == rd_kafka_ssl_error(queue)
                 IN  [ret |-> -1, poll |-> {}, errstr |-> d.errstr,
                      logged |-> d.logged, queue |-> d.queue,
                 seen |-> [queue |-> queue, errno |-> errno]]
            ELSE [ret |-> -1, poll |-> {},
                  errstr |-> <<"SSL transport error: ">> \o rd_strerror(errno),
                  logged |-> << >>, queue |-> queue,
             seen |-> [queue |-> queue, errno |-> errno]]
      [] serr = "ZERO_RETURN" ->
            [ret |-> -1, poll |-> {}, errstr |-> <<"Disconnected">>,
             logged |-> << >>, queue |-> queue,
             seen |-> [queue |-> queue, errno |-> errno]]
      [] OTHER ->
            LET d == rd_kafka_ssl_error(queue)
            IN  [ret |-> -1, poll |-> {}, errstr |-> d.errstr,
                 logged |-> d.logged, queue |-> d.queue,
                 seen |-> [queue |-> queue, errno |-> errno]]

\* ------------------------------------------------ slice and buffer cursors
\* A cursor over segmented memory: `ends` are the offsets at which a
\* contiguous segment ends (the last one is the total size), `pos` is the
\* read (slice) or write (buffer) position.  A slice's bytes are the numbers
\* base+1 .. base+size, so that every submitted byte is told apart.
SetMax(S) == CHOOSE m \in S : \A x \in S : x <= m
SetMin(S) == CHOOSE m \in S : \A x \in S : m <= x
CursorSize(c) == IF c.ends = {} THEN 0 ELSE SetMax(c.ends)
CursorLeft(c) == CursorSize(c) - c.pos

\* rd_slice_peeker / rd_buf_get_writable: the length of the next contiguous
\* chunk at the position, 0 at the end.
rd_slice_peeker(c) ==
    IF c.pos >= CursorSize(c) THEN 0
    ELSE SetMin({e \in c.ends : e > c.pos}) - c.pos
rd_buf_get_writable(c) == rd_slice_peeker(c)

\* The position goes one byte further than asked, when there is one.
rd_slice_read_Mut29(c, n) ==
    LET m == IF n <= CursorLeft(c) THEN n ELSE CursorLeft(c)
        k == IF n + 1 <= CursorLeft(c) THEN n + 1 ELSE CursorLeft(c)
    IN  [c |-> [c EXCEPT !.pos = c.pos + k], n |-> m]
\* rd_slice_read(slice, NULL, n) / rd_buf_write(rbuf, NULL, n): advance by n,
\* at most to the end; `n` of the result is the distance advanced.
rd_slice_read(c, n) ==
    LET m == IF n <= CursorLeft(c) THEN n ELSE CursorLeft(c)
    IN  [c |-> [c EXCEPT !.pos = c.pos + m], n |-> m]
rd_buf_write(c, n) == rd_slice_read(c, n).c

\* The bytes of the chunk at the slice's position, first n of them.
SliceBytes(c, n) == [i \in 1..n |-> c.base + c.pos + i]

\* ------------------------------------------------ the library's transfers
\* What a failing SSL_write / SSL_read / SSL_connect / SSL_do_handshake can
\* report: the session's condition, the entries it pushed on the error
\* queue and the errno it left.
QueuePushes ==
    { q \in UNION { [1..n -> ErrEntries] : n \in 1..MaxQueue } :
        \A i \in 1..(Len(q) - 1) : q[i] = "e1" }
PrimFailures ==
    [cond : {"WANT_READ", "WANT_WRITE", "WANT_CONNECT", "WANT_X509_LOOKUP",
             "ZERO_RETURN"},
     push : {<< >>}, errno : {0}]
    \cup [cond : {"SYSCALL"}, push : {<< >>, <<"e1">>}, errno : {0, 1}]
    \cup [cond : {"SSL"}, push : QueuePushes, errno : {0}]
\* A successful call may leave an entry behind all the same.
Junk == {<< >>, <<"e1">>}

\* The outcome of one send/recv call; stale is the error queue and the errno
\* that were in place when the invocation that failed was made.
IoOut(ret, c, w, q, e, io, n, serr, crash, stale) ==
    [ret |-> ret, cursor |-> c, moved |-> w, queue |-> q, errno |-> e,
     poll |-> io.poll, errstr |-> io.errstr, logged |-> io.logged,
     nprim |-> n, serr |-> serr, crash |-> crash, seen |-> io.seen,
     stale |-> stale]
NoIo == [ret |-> 0, poll |-> {}, errstr |-> NoErrstr, logged |-> << >>,
         queue |-> << >>, seen |-> NoSeen]

\* The number of bytes send advances the slice by after SSL_write took r of
\* the rlen offered.
SendConsumedMut(r, rlen) == rlen
SendConsumed(r, rlen) == r

\* The loop goes on after a short transfer.
ShortTransfer_Mut(r, len) == FALSE
\* Whether send/recv leave the loop after a transfer of r of the len offered.
ShortTransfer(r, len) == r < len

\* The loop of rd_kafka_transport_ssl_send from the slice position on: the
\* set of outcomes over everything SSL_write may answer.  `canIO`: the
\* session has completed its handshake, so SSL_write can accept bytes.
RECURSIVE SendLoop(_, _, _, _, _, _, _)
SendLoop(c, sum, w, q, e, n, canIO) ==
    LET rlen == rd_slice_peeker(c)
    IN  IF rlen = 0
        THEN { IoOut(sum, c, w, q, e, NoIo, n, "none", "no", NoSeen) }
        ELSE UNION (
               { LET io == rd_kafka_transport_ssl_io_update(
                              SSL_get_error(f.cond, q, f.push),
                              q \o f.push, f.errno)
                 IN  { IoOut(IF io.ret = -1 THEN -1 ELSE sum, c, w, io.queue,
                             f.errno, io, n + 1,
                             SSL_get_error(f.cond, q, f.push), "no",
                             [queue |-> q, errno |-> e]) }
                 : f \in PrimFailures }
               \cup
               { LET rd == rd_slice_read(c, SendConsumed(r, rlen))
                     w2 == w \o SliceBytes(c, r)
                 IN  IF rd.n # r
                     THEN { IoOut(sum, rd.c, w2, q \o j, e, NoIo, n + 1,
                                  "none", "assert", NoSeen) }
                     ELSE IF ShortTransfer(r, rlen)
                     THEN { IoOut(sum + r, rd.c, w2, q \o j, e, NoIo, n + 1,
                                  "none", "no", NoSeen) }
                     ELSE SendLoop(rd.c, sum + r, w2, q \o j, e, n + 1, canIO)
                 : r \in (IF canIO THEN 1..rlen ELSE {}), j \in Junk } )

\* The number of bytes recv advances the buffer by after SSL_read gave r.
RecvWrittenMut(r) == 0
RecvWritten(r) == r

\* The loop of rd_kafka_transport_ssl_recv: `avail` bytes are there to read.
RECURSIVE RecvLoop(_, _, _, _, _, _, _)
RecvLoop(c, sum, avail, q, e, n, canIO) ==
    LET len == rd_buf_get_writable(c)
        top == IF len <= avail THEN len ELSE avail
    IN  IF len = 0
        THEN { IoOut(sum, c, avail, q, e, NoIo, n, "none", "no", NoSeen) }
        ELSE UNION (
               { LET io == rd_kafka_transport_ssl_io_update(
                              SSL_get_error(f.cond, << >>, f.push),
                              f.push, f.errno)
                 IN  { IoOut(IF io.ret = -1 THEN -1 ELSE sum, c, avail,
                             io.queue, f.errno, io, n + 1,
                             SSL_get_error(f.cond, << >>, f.push), "no",
                             [queue |-> << >>, errno |-> 0]) }
                 : f \in PrimFailures }
               \cup
               { LET c2 == rd_buf_write(c, RecvWritten(r))
                 IN  IF ShortTransfer(r, len)
                     THEN { IoOut(sum + r, c2, avail - r, j, 0, NoIo, n + 1,
                                  "none", "no", NoSeen) }
                     ELSE RecvLoop(c2, sum + r, avail - r, j, 0, n + 1, canIO)
                 : r \in (IF canIO THEN 1..top ELSE {}), j \in Junk } )

\* ------------------------------------------------------ verification hook
X509_V_OK == "X509_V_OK"
\* The verdicts the library itself reaches on a certificate.
LibVerdicts == {X509_V_OK, "CERT_HAS_EXPIRED"}
\* The values the application callback may leave in its in/out error code.
X509Errors == LibVerdicts \cup {"APPLICATION_VERIFICATION"}

\* What happens inside one hook invocation: the certificate cannot be had
\* (nocert) or serialised (i2d), or the application callback runs, returns
\* ok and leaves err in *x509_error.
AppChoices ==
    [fail : {"nocert", "i2d"}, ok : {0}, err : {X509_V_OK}]
    \cup [fail : {"none"}, ok : {0, 1}, err : X509Errors]

\* On accept the chain's error code is set to whatever the callback left.
rd_kafka_transport_ssl_cert_verify_cb_Mut(preverify_ok, ctx_error, depth, app) ==
    IF app.fail # "none"
    THEN [ret |-> 0, error |-> ctx_error, depth |-> depth, orig |-> ctx_error,
          app |-> app]
    ELSE [ret |-> app.ok, error |-> app.err, depth |-> depth,
          orig |-> ctx_error, app |-> app]
\* rd_kafka_transport_ssl_cert_verify_cb(preverify_ok, x509_ctx): the value it
\* returns and the chain's error code it leaves.
rd_kafka_transport_ssl_cert_verify_cb(preverify_ok, ctx_error, depth, app) ==
    IF app.fail # "none"
    THEN [ret |-> 0, error |-> ctx_error, depth |-> depth, orig |-> ctx_error,
          app |-> app]
    ELSE IF app.ok = 0
    THEN [ret |-> 0, error |-> app.err, depth |-> depth, orig |-> ctx_error,
          app |-> app]
    ELSE [ret |-> 1,
          error |-> IF ctx_error # X509_V_OK /\ app.err = X509_V_OK
                    THEN X509_V_OK ELSE ctx_error,
          depth |-> depth, orig |-> ctx_error, app |-> app]

\* The library's walk over the peer's chain from the certificate at index i
\* (depth i-1) down to the leaf: each certificate's own verdict sets the
\* chain's error code, then the verify callback decides (the hook when one
\* is registered, the library's verdict otherwise); a callback returning 0
\* ends the walk in failure.  The set of [ok, error, log] over every choice
\* of the application callback; log holds the callback's return values.
RECURSIVE X509_verify_cert(_, _, _, _, _)
X509_verify_cert(chain, i, error, log, hook) ==
    IF i = 0 THEN { [ok |-> TRUE, error |-> error, log |-> log] }
    ELSE LET pre == chain[i] = X509_V_OK
             err == IF pre THEN error ELSE chain[i]
         IN  IF ~hook
             THEN IF pre
                  THEN X509_verify_cert(chain, i - 1, err, log, hook)
                  ELSE { [ok |-> FALSE, error |-> err, log |-> log] }
             ELSE UNION {
                    LET h == rd_kafka_transport_ssl_cert_verify_cb(
                                 IF pre THEN 1 ELSE 0, err, i - 1, app)
                    IN  IF h.ret = 0
                        THEN { [ok |-> FALSE, error |-> h.error,
                                log |-> Append(log, h.ret)] }
                        ELSE X509_verify_cert(chain, i - 1, h.error,
                                              Append(log, h.ret), hook)
                    : app \in AppChoices }

\* --------------------------------------------------------------- session
NoName == << >>
NoSsl == [fd |-> FALSE, tlsext_host |-> NoName, host |-> NoName,
          phase |-> "none", peer_cert |-> FALSE, verify_result |-> X509_V_OK,
          hooks |-> 0, hook_reject |-> FALSE]
\* SSL_new(ctx)
NewSsl == [NoSsl EXCEPT !.phase = "new"]

\* SSL_CTX_set_verify(ctx, mode, callback) as rd_kafka_ssl_ctx_init calls it.
\* The hook is registered only when peer verification is enabled.
SSL_CTX_set_verify_Mut24(c, conf) ==
    [c EXCEPT !.verify_mode = IF conf.enable_verify THEN "PEER" ELSE "NONE",
              !.verify_cb = conf.cert_verify_cb /\ conf.enable_verify]
SSL_CTX_set_verify_Mut(c, conf) ==
    [c EXCEPT !.verify_mode = "NONE",
              !.verify_cb = conf.cert_verify_cb]
SSL_CTX_set_verify(c, conf) ==
    [c EXCEPT !.verify_mode = IF conf.enable_verify THEN "PEER" ELSE "NONE",
              !.verify_cb = conf.cert_verify_cb]

\* One run of the library's handshake (SSL_connect, SSL_do_handshake) on a
\* live session: the set of [r, f, ssl, log].  r = 1: the handshake is
\* complete; otherwise f is the failure reported.  The peer's chain is
\* verified once, when its certificate message is processed; with
\* SSL_VERIFY_PEER a failed verification ends the handshake, with
\* SSL_VERIFY_NONE the handshake goes on whatever the verdict.
HsFail(s, f, log) ==
    [r |-> -1, f |-> f, log |-> log,
     ssl |-> IF f.cond \in {"SYSCALL", "SSL", "ZERO_RETURN"}
             THEN [s EXCEPT !.phase = "dead"] ELSE s]
HsDone(s, j, log) ==
    [r |-> 1, f |-> [cond |-> "NONE", push |-> j, errno |-> 0], log |-> log,
     ssl |-> [s EXCEPT !.phase = "done"]]
HsEnds(s, log, mayEnd) ==
    { HsFail(s, f, log) : f \in PrimFailures }
    \cup (IF mayEnd THEN { HsDone(s, j, log) : j \in Junk } ELSE {})
SSL_do_handshake(s, c, p) ==
    CASE s.phase = "done" -> { HsDone(s, << >>, << >>) }
      [] s.phase = "dead" ->
            { HsFail(s, f, << >>) : f \in {g \in PrimFailures :
                                          g.cond \in {"SSL", "SYSCALL"}} }
      [] s.phase = "certs" -> HsEnds(s, << >>, TRUE)
      [] OTHER ->
            HsEnds(s, << >>, p.chain = << >>)
            \cup
            (IF p.chain = << >> THEN {}
             ELSE UNION {
                    LET s2 == [s EXCEPT !.phase = "certs",
                                        !.peer_cert = TRUE,
                                        !.verify_result = v.error,
                                        !.hooks = Len(v.log),
                                        !.hook_reject = \E k \in 1..Len(v.log) :
                                                            v.log[k] = 0]
                    IN  IF c.verify_mode = "PEER" /\ ~v.ok
                        THEN { HsFail(s2, [cond |-> "SSL", push |-> <<"e1">>,
                                           errno |-> 0], v.log) }
                        ELSE { HsFail(s2, [cond |-> w, push |-> << >>,
                                           errno |-> 0], v.log)
                               : w \in {"WANT_READ", "WANT_WRITE"} }
                             \cup { HsDone(s2, << >>, v.log) }
                    : v \in X509_verify_cert(p.chain, Len(p.chain), X509_V_OK,
                                             << >>, c.verify_cb) })

\* No hook invocation.
NoHook == [ret |-> 1, error |-> X509_V_OK, depth |-> 0, orig |-> X509_V_OK,
           app |-> [fail |-> "none", ok |-> 1, err |-> X509_V_OK]]
\* What one call did, reset by every call: its return value, the events it
\* requested with rd_kafka_transport_poll_set, its diagnostics, ...
NoLast == [op |-> "none", ret |-> 0, errstr |-> NoErrstr, poll |-> {},
           logged |-> << >>, nprim |-> 0, serr |-> "none", cap0 |-> 0,
           pos0 |-> 0, done |-> 0, fail |-> << >>, hooks |-> << >>,
           verify |-> "none", ub |-> FALSE, was |-> "none",
           load |-> [check |-> "none", installed |-> {}, steps |-> << >>,
                     fault |-> "none"],
           prev |-> "none", seen |-> NoSeen, stale |-> NoSeen,
           hook |-> NoHook,
           buf |-> [size |-> 0, placed |-> 0]]

\* The expected peer name is set whether or not identification is on.
rd_kafka_transport_ssl_set_endpoint_id_Mut28(s, nodename, conf, queue, sniOk, hostOk) ==
    LET name == EndpointName(nodename)
        sni  == IsNonNumerical(name)
        s1   == IF sni THEN [s EXCEPT !.tlsext_host = name] ELSE s
        bad  == rd_kafka_ssl_error(queue \o <<"e1">>)
    IN  IF sni /\ ~sniOk
        THEN [ret |-> -1, ssl |-> s, errstr |-> bad.errstr,
              logged |-> bad.logged, queue |-> bad.queue]
        ELSE IF ~hostOk
        THEN [ret |-> -1, ssl |-> s1, errstr |-> bad.errstr,
              logged |-> bad.logged, queue |-> bad.queue]
        ELSE [ret |-> 0, ssl |-> [s1 EXCEPT !.host = name],
              errstr |-> NoErrstr, logged |-> << >>, queue |-> queue]
\* rd_kafka_transport_ssl_set_endpoint_id: the name is the nodename without
\* its port; it is sent for SNI when it is not numerical, and set as the
\* expected peer name when endpoint identification is on.
rd_kafka_transport_ssl_set_endpoint_id(s, nodename, conf, queue, sniOk, hostOk) ==
    LET name == EndpointName(nodename)
        sni  == IsNonNumerical(name)
        s1   == IF sni THEN [s EXCEPT !.tlsext_host = name] ELSE s
        bad  == rd_kafka_ssl_error(queue \o <<"e1">>)
    IN  IF sni /\ ~sniOk
        THEN [ret |-> -1, ssl |-> s, errstr |-> bad.errstr,
              logged |-> bad.logged, queue |-> bad.queue]
        ELSE IF conf.endpoint_identification = "NONE"
        THEN [ret |-> 0, ssl |-> s1, errstr |-> NoErrstr, logged |-> << >>,
              queue |-> queue]
        ELSE IF ~hostOk
        THEN [ret |-> -1, ssl |-> s1, errstr |-> bad.errstr,
              logged |-> bad.logged, queue |-> bad.queue]
        ELSE [ret |-> 0, ssl |-> [s1 EXCEPT !.host = name],
              errstr |-> NoErrstr, logged |-> << >>, queue |-> queue]

\* A missing certificate is refused without telling the broker thread.
rd_kafka_transport_ssl_verify_Mut(conf, s) ==
    IF ~conf.enable_verify
    THEN [ret |-> 0, fail |-> << >>, verify |-> "off"]
    ELSE IF ~s.peer_cert
    THEN [ret |-> -1, verify |-> "fail", fail |-> << >>]
    ELSE IF s.verify_result # X509_V_OK
    THEN [ret |-> -1, verify |-> "fail",
          fail |-> << <<"Failed to verify broker certificate: ",
                        s.verify_result>> >>]
    ELSE [ret |-> 0, fail |-> << >>, verify |-> "pass"]
\* rd_kafka_transport_ssl_verify: 0, or -1 with the diagnostic handed to
\* rd_kafka_broker_fail.
rd_kafka_transport_ssl_verify(conf, s) ==
    IF ~conf.enable_verify
    THEN [ret |-> 0, fail |-> << >>, verify |-> "off"]
    ELSE IF ~s.peer_cert
    THEN [ret |-> -1, verify |-> "fail",
          fail |-> << <<"Broker did not provide a certificate">> >>]
    ELSE IF s.verify_result # X509_V_OK
    THEN [ret |-> -1, verify |-> "fail",
          fail |-> << <<"Failed to verify broker certificate: ",
                        s.verify_result>> >>]
    ELSE [ret |-> 0, fail |-> << >>, verify |-> "pass"]

\* What rd_kafka_transport_ssl_connect does once SSL_connect returned 1.
ConnectCompleted(conf, s) ==
    [ret |-> 0, fail |-> << >>, verify |-> "none"]

\* The outcome of a connect or handshake call.
HsOut(ret, ptr, s, q, e, io, n, serr, done, fail, hooks, verify, stale) ==
    [ret |-> ret, ptr |-> ptr, ssl |-> s, queue |-> q, errno |-> e,
     poll |-> io.poll, errstr |-> io.errstr, logged |-> io.logged,
     nprim |-> n, serr |-> serr, done |-> done, fail |-> fail,
     hooks |-> hooks, verify |-> verify, seen |-> io.seen, stale |-> stale]

\* rd_kafka_transport_ssl_connect on a transport without a session.
ConnectOutcomes ==
    LET bad == rd_kafka_ssl_error(errQueue \o <<"e1">>)
        failed(ptr, s) ==
            HsOut(-1, ptr, s, bad.queue, rd_errno,
                  [NoIo EXCEPT !.errstr = bad.errstr, !.logged = bad.logged],
                  0, "none", 0, << >>, << >>, "none", NoSeen)
    IN  \* SSL_new failed
        { failed("NULL", NoSsl) }
        \cup
        (IF rk_conf.ctx = "NULL" THEN {}
         ELSE
           \* SSL_set_fd failed
           { failed("SSL", NewSsl) }
           \cup
           UNION {
             LET ep == rd_kafka_transport_ssl_set_endpoint_id(
                           [NewSsl EXCEPT !.fd = TRUE], rkb_nodename, rk_conf,
                           errQueue, b[1], b[2])
             IN  IF ep.ret = -1
                 THEN { HsOut(-1, "SSL", ep.ssl, ep.queue, rd_errno,
                              [NoIo EXCEPT !.errstr = ep.errstr,
                                           !.logged = ep.logged],
                              0, "none", 0, << >>, << >>, "none", NoSeen) }
                 ELSE { IF h.r = 1
                        THEN LET v == ConnectCompleted(rk_conf, h.ssl)
                             IN  HsOut(v.ret, "SSL", h.ssl, h.f.push, 0, NoIo,
                                       1, "none",
                                       IF v.ret = 0 THEN 1 ELSE 0, v.fail,
                                       h.log, v.verify, NoSeen)
                        ELSE LET serr == SSL_get_error(h.f.cond, << >>, h.f.push)
                                 io == rd_kafka_transport_ssl_io_update(
                                           serr, h.f.push, h.f.errno)
                             IN  HsOut(io.ret, "SSL", h.ssl, io.queue,
                                       h.f.errno, io, 1, serr, 0, << >>,
                                       h.log, "none",
                                       [queue |-> << >>, errno |-> 0])
                        : h \in SSL_do_handshake(ep.ssl, ctx, peer) }
             : b \in BOOLEAN \X BOOLEAN })

\* rd_kafka_transport_ssl_handshake on a live session.
HandshakeOutcomes ==
    { IF h.r = 1
      THEN LET v == rd_kafka_transport_ssl_verify(rk_conf, h.ssl)
           IN  HsOut(IF v.ret = -1 THEN -1 ELSE 1, "SSL", h.ssl,
                     errQueue \o h.f.push, rd_errno, NoIo, 1, "none",
                     IF v.ret = -1 THEN 0 ELSE 1, v.fail, h.log, v.verify, NoSeen)
      ELSE LET serr == SSL_get_error(h.f.cond, errQueue, h.f.push)
               \* the errno of an earlier call stays when this one sets none
               e == IF h.f.errno # 0 THEN h.f.errno ELSE rd_errno
               io == rd_kafka_transport_ssl_io_update(
                         serr, errQueue \o h.f.push, e)
           IN  HsOut(io.ret, "SSL", h.ssl, io.queue, e, io, 1, serr,
                     0,
                     IF io.ret = -1
                     THEN << <<"SSL handshake failed: ">> \o io.errstr
                             \o (IF \E k \in 1..Len(io.errstr) :
                                       io.errstr[k] = "unexpected message"
                                 THEN <<": client authentication might be required (see broker log)">>
                                 ELSE << >>) >>
                     ELSE << >>,
                     h.log, "none",
                     [queue |-> errQueue, errno |-> rd_errno])
      : h \in SSL_do_handshake(ssl, ctx, peer) }

\* A call on a transport whose rktrans_ssl is NULL hands NULL to the library,
\* which dereferences it: the process dies, or the call comes back with
\* whatever value was in the register.
GarbageRets == {-1, 0, 1}

\* The new session is given the context's settings, the other way round.
SSL_new_Mut(c) == [c EXCEPT !.refs = @ + 1, !.verify_mode = "NONE",
                            !.verify_cb = FALSE]
\* SSL_new(ctx) takes a reference on the context and copies its settings
\* into the new SSL object; SSL_free gives the reference back.
SSL_new(c) == [c EXCEPT !.refs = @ + 1]
SSL_free(c) == [c EXCEPT !.refs = @ - 1]

ApplyHs(op, o) ==
    /\ rktrans_ssl' = o.ptr
    /\ ctx' = IF op = "connect" /\ o.ptr = "SSL" THEN SSL_new(ctx) ELSE ctx
    /\ ssl' = o.ssl
    /\ errQueue' = o.queue
    /\ rd_errno' = o.errno
    /\ rkb_state' = IF o.fail # << >> THEN "DOWN"
                    ELSE IF o.done > 0 THEN "UP"
                    ELSE IF rkb_state = "INIT" THEN "CONNECT" ELSE rkb_state
    /\ last' = [NoLast EXCEPT !.op = op, !.ret = o.ret, !.errstr = o.errstr,
                              !.poll = o.poll, !.logged = o.logged,
                              !.nprim = o.nprim, !.serr = o.serr,
                              !.done = o.done, !.fail = o.fail,
                              !.hooks = o.hooks, !.verify = o.verify,
                              !.was = ssl.phase, !.seen = o.seen,
                              !.stale = o.stale]
    /\ UNCHANGED <<others, rk_conf, rkb_nodename, peer, slice, wire, rbuf,
                   inbound, crashed, crypto>>

\* A call that handed the NULL session to the library.
NullDeref(op) ==
    /\ \/ /\ crashed' = "segv"
          /\ last' = [NoLast EXCEPT !.op = op, !.ub = TRUE, !.was = "none"]
       \/ /\ \E r \in GarbageRets :
                last' = [NoLast EXCEPT !.op = op, !.ub = TRUE, !.ret = r,
                                       !.was = "none"]
          /\ UNCHANGED crashed
    /\ UNCHANGED <<others, rk_conf, rkb_nodename, peer, rktrans_ssl, ssl,
                   rkb_state, slice, wire, rbuf, inbound, ctx, crypto>>

rd_kafka_transport_ssl_connect ==
    /\ crashed = "no"
    /\ rkb_state = "INIT"
    /\ rktrans_ssl = "NULL"
    /\ \E o \in ConnectOutcomes : ApplyHs("connect", o)

rd_kafka_transport_ssl_handshake ==
    /\ crashed = "no"
    /\ rkb_state # "INIT"
    /\ IF rktrans_ssl = "NULL"
       THEN NullDeref("handshake") /\ UNCHANGED <<errQueue, rd_errno>>
       ELSE /\ rkb_state = "CONNECT"
            /\ \E o \in HandshakeOutcomes : ApplyHs("handshake", o)

\* rd_kafka_transport_ssl_close: SSL_shutdown, SSL_free, rktrans_ssl = NULL.
rd_kafka_transport_ssl_close ==
    /\ crashed = "no"
    /\ rkb_state # "INIT"
    /\ IF rktrans_ssl = "NULL"
       THEN \/ /\ crashed' = "segv"
               /\ last' = [NoLast EXCEPT !.op = "close", !.ub = TRUE]
               /\ UNCHANGED <<rktrans_ssl, ssl, errQueue, ctx>>
            \/ /\ last' = [NoLast EXCEPT !.op = "close", !.ub = TRUE]
               /\ UNCHANGED <<rktrans_ssl, ssl, errQueue, crashed, ctx>>
       ELSE /\ rktrans_ssl' = "NULL"
            /\ ssl' = NoSsl
            /\ ctx' = SSL_free(ctx)
            /\ \E j \in Junk : errQueue' = errQueue \o j
            /\ last' = [NoLast EXCEPT !.op = "close", !.was = ssl.phase]
            /\ UNCHANGED crashed
    /\ UNCHANGED <<others, rk_conf, rkb_nodename, peer, rkb_state,
                   rd_errno, slice, wire, rbuf, inbound, crypto>>

ApplyIo(op, o, cap0, pos0) ==
    /\ errQueue' = o.queue
    /\ rd_errno' = o.errno
    /\ crashed' = o.crash
    /\ last' = [NoLast EXCEPT !.op = op, !.ret = o.ret, !.errstr = o.errstr,
                              !.poll = o.poll, !.logged = o.logged,
                              !.nprim = o.nprim, !.serr = o.serr,
                              !.cap0 = cap0, !.pos0 = pos0, !.was = ssl.phase,
                              !.seen = o.seen, !.stale = o.stale]

rd_kafka_transport_ssl_send ==
    /\ crashed = "no"
    /\ rkb_state # "INIT"
    /\ IF rktrans_ssl = "NULL" /\ rd_slice_peeker(slice) > 0
       THEN /\ NullDeref("send")
            /\ errQueue' = << >>
            /\ rd_errno' = 0
       ELSE /\ \E o \in SendLoop(slice, 0, wire, << >>, 0, 0,
                                 ssl.phase = "done") :
                   /\ ApplyIo("send", o, CursorLeft(slice), slice.pos)
                   /\ slice' = o.cursor
                   /\ wire' = o.moved
            /\ UNCHANGED <<others, rk_conf, rkb_nodename, peer, rktrans_ssl, ssl,
                           rkb_state, rbuf, inbound, ctx, crypto>>

rd_kafka_transport_ssl_recv ==
    /\ crashed = "no"
    /\ rkb_state # "INIT"
    /\ IF rktrans_ssl = "NULL" /\ rd_buf_get_writable(rbuf) > 0
       THEN /\ NullDeref("recv")
            /\ errQueue' = << >>
            /\ rd_errno' = 0
       ELSE /\ \E o \in RecvLoop(rbuf, 0, inbound, errQueue, rd_errno, 0,
                                 ssl.phase = "done") :
                   /\ ApplyIo("recv", o, CursorLeft(rbuf), rbuf.pos)
                   /\ rbuf' = o.cursor
                   /\ inbound' = o.moved
            /\ UNCHANGED <<others, rk_conf, rkb_nodename, peer, rktrans_ssl, ssl,
                           rkb_state, slice, wire, ctx, crypto>>

\* ------------------------------------------------------------ the caller
\* The ways to cut k bytes into contiguous segments of at most MaxSeg bytes.
Segmentations(k) ==
    { E \in SUBSET (1..k) :
        /\ k \in E
        /\ \A e \in E : e - SetMax({0} \cup {x \in E : x < e}) <= MaxSeg }
EmptySlice == [base |-> 0, ends |-> {}, pos |-> 0]
EmptyBuf == [ends |-> {}, pos |-> 0]

\* The protocol layer hands the next request's bytes to send once the
\* previous slice is used up.
SubmitSlice(maxTotal) ==
    /\ crashed = "no"
    /\ rkb_state = "UP"
    /\ CursorLeft(slice) = 0
    /\ \E k \in 1..(maxTotal - (slice.base + CursorSize(slice))) :
       \E E \in Segmentations(k) :
          slice' = [base |-> slice.base + CursorSize(slice), ends |-> E,
                    pos |-> 0]
    /\ UNCHANGED <<others, rk_conf, rkb_nodename, peer, rktrans_ssl, ssl,
                   rkb_state, errQueue, rd_errno, wire, rbuf, inbound, last,
                   crashed, ctx, crypto>>

\* The protocol layer hands recv a buffer with room once the previous one
\* is full.
SubmitBuf(maxCap) ==
    /\ crashed = "no"
    /\ rkb_state = "UP"
    /\ CursorLeft(rbuf) = 0
    /\ \E k \in 1..maxCap : \E E \in Segmentations(k) :
          rbuf' = [ends |-> E, pos |-> 0]
    /\ UNCHANGED <<others, rk_conf, rkb_nodename, peer, rktrans_ssl, ssl,
                   rkb_state, errQueue, rd_errno, slice, wire, inbound, last,
                   crashed, ctx, crypto>>

\* The peer sends a byte.
PeerSends(maxIn) ==
    /\ crashed = "no"
    /\ rkb_state = "UP"
    /\ inbound < maxIn
    /\ inbound' = inbound + 1
    /\ UNCHANGED <<others, rk_conf, rkb_nodename, peer, rktrans_ssl, ssl,
                   rkb_state, errQueue, rd_errno, slice, wire, rbuf, last,
                   crashed, ctx, crypto>>

NewSlice == SubmitSlice(SessBytes)
NewBuf == SubmitBuf(SessBytes)
PeerData == PeerSends(SessBytes)

\* ------------------------------------------------- the certificate loader
\* An SSL_CTX: life is "unborn" before SSL_CTX_new, "built" once
\* rd_kafka_ssl_ctx_init has published it, "freed" after SSL_CTX_free.  cert
\* and key name the key pair of the certificate and of the private key in
\* place (0: none); a private key matches a certificate of the same pair.
\* ca is the set of CA sources whose certificates the trust store holds.
\* refs is the context's reference count: one reference is the handle's,
\* and every SSL object made from the context holds one until it is freed.
\* frees counts the context objects SSL_CTX_free has released.
NoCtx == [verify_mode |-> "NONE", verify_cb |-> FALSE, life |-> "unborn",
          cert |-> 0, key |-> 0, ca |-> {}, crl |-> FALSE,
          partial_write |-> FALSE, refs |-> 0, frees |-> 0]
\* The context is left as it is: nothing is released.
SSL_CTX_free_Mut(c) == c
\* SSL_CTX_free(ctx): the object is released; a no-operation on NULL (no
\* object was made).
SSL_CTX_free(c) ==
    [NoCtx EXCEPT !.life = "freed",
                  !.frees = IF c.life = "unborn" THEN c.frees
                            ELSE c.frees + 1]
BuiltCtx == [NoCtx EXCEPT !.life = "built", !.partial_write = TRUE,
                          !.refs = 1]
NoOthers == [t \in 1..MaxOthers |-> "none"]

\* The points at which the file system or the library can fail a source,
\* and the prefix rd_kafka_ssl_set_certs / rd_kafka_ssl_ctx_init write.
Diag(f) ==
    CASE f = "ctx_new"        -> "SSLv23_client_method() failed: "
      [] f = "cipher_suites"  -> "ssl.cipher.suites failed: "
      [] f = "curves_list"    -> "ssl.curves.list failed: "
      [] f = "sigalgs_list"   -> "ssl.sigalgs.list failed: "
      [] f = "ca_location"    -> "ssl.ca.location failed: "
      [] f = "crl_location"   -> "ssl.crl.location failed: "
      [] f = "cert"           -> "ssl_cert failed: "
      [] f = "cert_location"  -> "ssl.certificate.location failed: "
      [] f = "cert_pem_parse" ->
             "ssl.certificate.pem failed: not in PEM format?: "
      [] f = "cert_pem"       -> "ssl.certificate.pem failed: "
      [] f = "key"            -> "ssl_key (in-memory) failed: "
      [] f = "key_location"   -> "ssl.key.location failed: "
      [] f = "key_pem_parse"  -> "ssl.key.pem failed: not in PEM format?: "
      [] f = "key_pem"        -> "ssl.key.pem failed: "
      [] f = "keystore_open"  -> "Failed to open ssl.keystore.location: "
      [] f = "keystore_read"  -> "Error reading PKCS#12 file: "
      [] f = "keystore_parse" -> "Failed to parse PKCS#12 file: "
      [] f = "keystore_cert"  ->
             "Failed to use ssl.keystore.location certificate: "
      [] f = "keystore_key"   ->
             "Failed to use ssl.keystore.location private key: "
      [] f = "check"          -> "Private key check failed: "

\* The failure points the configuration makes reachable.
Faults(conf) ==
    {"none", "ctx_new"}
    \cup (IF conf.cipher_suites THEN {"cipher_suites"} ELSE {})
    \cup (IF conf.curves_list THEN {"curves_list"} ELSE {})
    \cup (IF conf.sigalgs_list THEN {"sigalgs_list"} ELSE {})
    \cup (IF ~conf.ca /\ conf.ca_location THEN {"ca_location"} ELSE {})
    \cup (IF ~conf.ca /\ ~conf.ca_location THEN {"default_paths"} ELSE {})
    \cup (IF conf.crl_location THEN {"crl_location"} ELSE {})
    \cup (IF conf.cert # 0 THEN {"cert"} ELSE {})
    \cup (IF conf.cert_location # 0 THEN {"cert_location"} ELSE {})
    \cup (IF conf.cert_pem # 0 THEN {"cert_pem_parse", "cert_pem"} ELSE {})
    \cup (IF conf.key # 0 THEN {"key"} ELSE {})
    \cup (IF conf.key_location # 0 THEN {"key_location"} ELSE {})
    \cup (IF conf.key_pem # 0 THEN {"key_pem_parse", "key_pem"} ELSE {})
    \cup (IF conf.keystore_location # 0
          THEN {"keystore_open", "keystore_read", "keystore_parse",
                "keystore_cert", "keystore_key"}
          ELSE {})

\* SSL_CTX_use_certificate and its file and chain-file variants: the
\* certificate replaces the one in place; a private key in place that does
\* not match it is dropped.
SSL_CTX_use_certificate(c, x) ==
    [c EXCEPT !.cert = x, !.key = IF @ # x THEN 0 ELSE @]

\* SSL_CTX_use_PrivateKey and its file variant.  A key that does not match
\* the certificate in place is either refused (the library drops the
\* certificate and returns 0: key and certificate of one key type) or
\* installed next to it (key and certificate of different key types).
SSL_CTX_use_PrivateKey(c, k, refuse) ==
    IF c.cert # 0 /\ c.cert # k /\ refuse
    THEN [r |-> 0, c |-> [c EXCEPT !.cert = 0]]
    ELSE [r |-> 1, c |-> [c EXCEPT !.key = k]]

\* SSL_CTX_check_private_key
SSL_CTX_check_private_key(c) == c.cert # 0 /\ c.key = c.cert

\* check_pkey at the end of rd_kafka_ssl_set_certs, from the key sources
\* that were installed.
check_pkey_Mut(installed) == installed \ {"ssl.keystore.location"} # {}
check_pkey(installed) == installed # {}

\* The loader's progress: s.ret = -1 once a source has failed.
LdFail(s, f) ==
    [s EXCEPT !.ret = -1, !.errstr = <<Diag(f)>>, !.failed = f]
LdStep(s, src) == [s EXCEPT !.steps = Append(@, src)]

\* The CA sources: the store set in memory, else ssl.ca.location, else (a
\* Windows build) the Windows Root store and, when that gave no certificate
\* or the build is not a Windows one, the library's default paths, whose
\* failure is ignored.  env.win is "none" (not a Windows build), "ok" or
\* "fail".
LoadCaWith(s, env, memFirst, ignoreDefault) ==
    LET mem == [LdStep(s, "ssl_ca") EXCEPT !.c.ca = {"ssl_ca"},
                                           !.conf.ca_store = "NULL"]
        loc == IF env.fault = "ca_location"
               THEN LdFail(LdStep(s, "ssl.ca.location"), "ca_location")
               ELSE [LdStep(s, "ssl.ca.location") EXCEPT
                        !.c.ca = @ \cup {"ssl.ca.location"}]
        s1  == IF env.win = "fail" THEN LdStep(s, "win_store") ELSE s
    IN  IF s.conf.ca /\ (memFirst \/ ~s.conf.ca_location) THEN mem
        ELSE IF s.conf.ca_location THEN loc
        ELSE IF env.win = "ok"
        THEN [LdStep(s, "win_store") EXCEPT !.c.ca = @ \cup {"win_store"}]
        ELSE IF env.fault = "default_paths"
        THEN IF ignoreDefault THEN LdStep(s1, "default_paths")
             ELSE [LdStep(s1, "default_paths") EXCEPT
                      !.ret = -1, !.failed = "default_paths",
                      !.errstr = <<"default paths failed: ">>]
        ELSE [LdStep(s1, "default_paths") EXCEPT
                 !.c.ca = @ \cup {"default_paths"}]
\* ssl.ca.location is looked at before the store set in memory.
LoadCa_Mut14(s, env) == LoadCaWith(s, env, FALSE, TRUE)
\* A failure of the default paths fails the loader.
LoadCa_Mut20(s, env) == LoadCaWith(s, env, TRUE, FALSE)
LoadCa(s, env) ==
    IF s.conf.ca
    THEN [LdStep(s, "ssl_ca") EXCEPT !.c.ca = {"ssl_ca"},
                                     !.conf.ca_store = "NULL"]
    ELSE IF s.conf.ca_location
    THEN IF env.fault = "ca_location"
         THEN LdFail(LdStep(s, "ssl.ca.location"), "ca_location")
         ELSE [LdStep(s, "ssl.ca.location") EXCEPT
                  !.c.ca = @ \cup {"ssl.ca.location"}]
    ELSE IF env.win = "ok"
    THEN [LdStep(s, "win_store") EXCEPT !.c.ca = @ \cup {"win_store"}]
    ELSE LET s1 == IF env.win = "fail" THEN LdStep(s, "win_store") ELSE s
         IN  \* default paths: a failure is ignored
             [LdStep(s1, "default_paths") EXCEPT
                 !.c.ca = IF env.fault = "default_paths" THEN @
                          ELSE @ \cup {"default_paths"}]

LoadCrl(s, env) ==
    IF ~s.conf.crl_location THEN s
    ELSE IF env.fault = "crl_location"
    THEN LdFail(LdStep(s, "ssl.crl.location"), "crl_location")
    ELSE [LdStep(s, "ssl.crl.location") EXCEPT !.c.crl = TRUE]

\* One certificate source: parsed (PEM string only), then used.
LoadCert(s, env, src, x, parseFault, useFault) ==
    IF x = 0 THEN s
    ELSE IF env.fault = parseFault
    THEN LdFail(LdStep(s, src), parseFault)
    ELSE IF env.fault = useFault
    THEN LdFail(LdStep(s, src), useFault)
    ELSE [LdStep(s, src) EXCEPT !.c = SSL_CTX_use_certificate(@, x)]

\* One private key source: parsed (PEM string only), then used; check_pkey
\* is set once the key is installed.
LoadKey(s, env, src, k, parseFault, useFault) ==
    IF k = 0 THEN s
    ELSE IF env.fault = parseFault
    THEN LdFail(LdStep(s, src), parseFault)
    ELSE LET u == SSL_CTX_use_PrivateKey(s.c, k, env.refuse)
         IN  IF env.fault = useFault
             THEN LdFail(LdStep(s, src), useFault)
             ELSE IF u.r # 1
             THEN [LdFail(LdStep(s, src), useFault) EXCEPT !.c = u.c]
             ELSE [LdStep(s, src) EXCEPT !.c = u.c,
                                         !.installed = @ \cup {src}]

\* ssl.keystore.location: the archive is opened, read and parsed, then its
\* certificate and its key are used.
\* The archive is left aside when a certificate is in place already.
LoadKeystore_Mut(s, env) ==
    LET k  == s.conf.keystore_location
        s1 == LdStep(s, "ssl.keystore.location")
        u  == SSL_CTX_use_PrivateKey(SSL_CTX_use_certificate(s.c, k), k,
                                     env.refuse)
    IN  IF k = 0 THEN s
        ELSE IF env.fault \in {"keystore_open", "keystore_read",
                               "keystore_parse", "keystore_cert",
                               "keystore_key"}
        THEN LdFail(s1, env.fault)
        ELSE IF s.c.cert # 0
        THEN [s1 EXCEPT !.installed = @ \cup {"ssl.keystore.location"}]
        ELSE [s1 EXCEPT !.c = u.c,
                        !.installed = @ \cup {"ssl.keystore.location"}]
LoadKeystore(s, env) ==
    LET k  == s.conf.keystore_location
        s1 == LdStep(s, "ssl.keystore.location")
    IN  IF k = 0 THEN s
        ELSE IF env.fault \in {"keystore_open", "keystore_read",
                               "keystore_parse", "keystore_cert"}
        THEN LdFail(s1, env.fault)
        ELSE LET c1 == SSL_CTX_use_certificate(s.c, k)
                 u  == SSL_CTX_use_PrivateKey(c1, k, env.refuse)
             IN  IF env.fault = "keystore_key" \/ u.r # 1
                 THEN [LdFail(s1, "keystore_key") EXCEPT !.c = c1]
                 ELSE [s1 EXCEPT !.c = u.c,
                          !.installed = @ \cup {"ssl.keystore.location"}]

CheckPkey(s) ==
    IF ~check_pkey(s.installed) THEN s
    ELSE IF SSL_CTX_check_private_key(s.c)
    THEN [s EXCEPT !.check = "ok"]
    ELSE [LdFail(s, "check") EXCEPT !.check = "failed"]

\* The sources in the order rd_kafka_ssl_set_certs goes through them.
LoaderOrder ==
    <<"ca", "crl", "cert", "cert_location", "cert_pem", "key",
      "key_location", "key_pem", "keystore", "check">>

\* rd_kafka_desensitize_str(rk_conf.ssl.key_pem): the key text is overwritten.
rd_kafka_desensitize_str_Mut(conf) == conf
rd_kafka_desensitize_str(conf) == [conf EXCEPT !.key_pem_scrubbed = TRUE]

\* One source of the loader, applied to the progress so far.
LoaderStep(name, s, env) ==
    CASE name = "ca"  -> LoadCa(s, env)
      [] name = "crl" -> LoadCrl(s, env)
      [] name = "cert" ->
            LoadCert(s, env, "ssl_cert", s.conf.cert, "never", "cert")
      [] name = "cert_location" ->
            LoadCert(s, env, "ssl.certificate.location",
                     s.conf.cert_location, "never", "cert_location")
      [] name = "cert_pem" ->
            LoadCert(s, env, "ssl.certificate.pem", s.conf.cert_pem,
                     "cert_pem_parse", "cert_pem")
      [] name = "key" ->
            LoadKey(s, env, "ssl_key", s.conf.key, "never", "key")
      [] name = "key_location" ->
            LoadKey(s, env, "ssl.key.location", s.conf.key_location,
                    "never", "key_location")
      [] name = "key_pem" ->
            \* rd_kafka_desensitize_str(key_pem) once the key is installed
            LET s1 == LoadKey(s, env, "ssl.key.pem", s.conf.key_pem,
                              "key_pem_parse", "key_pem")
            IN  IF s1.ret = 0 /\ "ssl.key.pem" \in s1.installed
                THEN [s1 EXCEPT !.conf = rd_kafka_desensitize_str(@)]
                ELSE s1
      [] name = "keystore" -> LoadKeystore(s, env)
      [] name = "check" -> CheckPkey(s)

\* The loader from source i on: it returns at the first source that fails.
RECURSIVE LoaderFrom(_, _, _)
LoaderFrom(i, s, env) ==
    IF i > Len(LoaderOrder) \/ s.ret = -1
    THEN s
    ELSE CHOOSE r \in { LoaderFrom(i + 1, s1, env) :
                          s1 \in { LoaderStep(LoaderOrder[i], s, env) } } :
            TRUE

\* rd_kafka_ssl_set_certs(rk, ctx, errstr): [ret, errstr, c, conf, ...]
rd_kafka_ssl_set_certs(conf, c, env) ==
    CHOOSE r \in
        { LoaderFrom(1, s0, env) :
            s0 \in { [ret |-> 0, errstr |-> NoErrstr, failed |-> "none",
                      c |-> c, conf |-> conf, installed |-> {},
                      steps |-> << >>, check |-> "none"] } } : TRUE

\* rd_kafka_ssl_ctx_init(rk, errstr) once the loader has returned ld: the
\* context is published in rk_conf.ssl.ctx; on failure the error queue is
\* drained behind the prefix and the context is freed.
CtxInitWith(conf, env, queue, ld) ==
    LET f  == IF env.fault = "ctx_new" THEN "ctx_new"
              ELSE IF conf.cipher_suites /\ env.fault = "cipher_suites"
              THEN "cipher_suites"
              ELSE IF conf.curves_list /\ env.fault = "curves_list"
              THEN "curves_list"
              ELSE IF conf.sigalgs_list /\ env.fault = "sigalgs_list"
              THEN "sigalgs_list"
              ELSE "none"
        fail(prefix, conf2, load, c) ==
            LET push == IF env.fault = "keystore_open" THEN << >>
                        ELSE <<"e1">>
                d == rd_kafka_ssl_error(queue \o push)
            IN  [ret |-> -1, errstr |-> prefix \o d.errstr,
                 logged |-> d.logged, queue |-> d.queue, conf |-> conf2,
                 c |-> SSL_CTX_free(c), load |-> load]
        noLoad == [check |-> "none", installed |-> {}, steps |-> << >>]
    IN  IF f # "none"
        THEN fail(<<Diag(f)>>, conf, noLoad,
                  IF f = "ctx_new" THEN NoCtx
                  ELSE [NoCtx EXCEPT !.life = "building", !.refs = 1])
        ELSE IF ld.ret = -1
        THEN fail(ld.errstr, ld.conf,
                  [check |-> ld.check, installed |-> ld.installed,
                   steps |-> ld.steps], ld.c)
        ELSE [ret |-> 0, errstr |-> NoErrstr, logged |-> << >>,
              queue |-> queue, conf |-> [ld.conf EXCEPT !.ctx = "CTX"],
              c |-> [ld.c EXCEPT !.life = "built", !.partial_write = TRUE],
              load |-> [check |-> ld.check, installed |-> ld.installed,
                        steps |-> ld.steps]]

CtxInit(conf, env, queue) ==
    CHOOSE r \in
        { CtxInitWith(conf, env, queue, ld) :
            ld \in { rd_kafka_ssl_set_certs(
                        conf,
                        SSL_CTX_set_verify([NoCtx EXCEPT !.life = "building",
                                                         !.refs = 1],
                                           conf),
                        env) } } : TRUE

rd_kafka_ssl_ctx_init ==
    /\ crashed = "no"
    /\ ctx.life = "unborn"
    /\ rk_conf.ctx = "NULL"
    /\ \E env \in [fault : Faults(rk_conf), refuse : BOOLEAN,
                    win : IF crypto.msc_ver THEN {"ok", "fail"}
                          ELSE {"none"}] :
          \E o \in { CtxInit(rk_conf, env, errQueue) } :
              /\ rk_conf' = o.conf
              /\ ctx' = o.c
              /\ errQueue' = o.queue
              /\ last' = [NoLast EXCEPT
                            !.op = "ctx_init", !.ret = o.ret,
                            !.errstr = o.errstr, !.logged = o.logged,
                            !.load = [check |-> o.load.check,
                                      installed |-> o.load.installed,
                                      steps |-> o.load.steps,
                                      fault |-> env.fault],
                            !.prev = last.op]
    /\ UNCHANGED <<others, rkb_nodename, peer, rktrans_ssl, ssl, rkb_state, rd_errno,
                   slice, wire, rbuf, inbound, crashed, crypto>>

\* rd_kafka_ssl_ctx_term(rk): SSL_CTX_free(rk_conf.ssl.ctx), a no-operation
\* on NULL, and the handle is cleared.
rd_kafka_ssl_ctx_term ==
    /\ crashed = "no"
    /\ ctx' = IF rk_conf.ctx = "NULL" THEN ctx ELSE SSL_CTX_free(ctx)
    /\ rk_conf' = [rk_conf EXCEPT !.ctx = "NULL"]
    /\ last' = [NoLast EXCEPT !.op = "ctx_term", !.prev = last.op]
    /\ UNCHANGED <<others, rkb_nodename, peer, rktrans_ssl, ssl, rkb_state, errQueue,
                   rd_errno, slice, wire, rbuf, inbound, crashed, crypto>>

\* ------------------------------------------- process-wide init and term
\* libcrypto's process-wide state and this file's lock table.  legacy: the
\* build is against OpenSSL before 1.1.0, where init and term do something;
\* threadid_api: HAVE_OPENSSL_CRYPTO_THREADID_SET_CALLBACK is defined;
\* msc_ver: the build is a Windows one (_MSC_VER).  A
\* callback is "NULL", "rdkafka" (this file's) or "other" (another party's).
\* locks is rd_kafka_ssl_locks: "NULL", "ALLOC" or "FREED" (the pointer keeps
\* its value after rd_free); mutexes are the initialised entries, held the
\* locked ones; leaked counts the tables lost without a free.
NoCrypto == [legacy |-> TRUE, threadid_api |-> TRUE, msc_ver |-> FALSE,
             num_locks |-> 1,
             locking_cb |-> "NULL", threadid_cb |-> "NULL",
             locks |-> "NULL", locks_cnt |-> 0, mutexes |-> {},
             held |-> {}, leaked |-> 0, freed_twice |-> FALSE,
             loaded |-> FALSE, inits |-> 0, terms |-> 0]

\* CRYPTO_set_locking_callback(cb)
CRYPTO_set_locking_callback(cr, cb) == [cr EXCEPT !.locking_cb = cb]

\* CRYPTO_THREADID_set_callback(cb) refuses (returns 0) when a callback is
\* set already; CRYPTO_set_id_callback(cb) replaces whatever is set.
SetThreadidCallback(cr, cb) ==
    IF cr.threadid_api
    THEN IF cr.threadid_cb # "NULL" THEN cr
         ELSE [cr EXCEPT !.threadid_cb = cb]
    ELSE [cr EXCEPT !.threadid_cb = cb]

\* The body of rd_kafka_ssl_init on a legacy build.
SslInit(cr) ==
    LET c1 == IF cr.locking_cb # "NULL" THEN cr
              ELSE SetThreadidCallback(
                     CRYPTO_set_locking_callback(
                       [cr EXCEPT
                          !.locks_cnt = cr.num_locks,
                          !.leaked = @ + (IF cr.locks = "ALLOC" THEN 1
                                          ELSE 0),
                          !.locks = "ALLOC",
                          !.mutexes = 0..(cr.num_locks - 1),
                          !.held = {}],
                       "rdkafka"),
                     "rdkafka")
    IN  [c1 EXCEPT !.loaded = TRUE]

\* The body of rd_kafka_ssl_term on a legacy build.
SslTerm(cr) ==
    IF cr.locking_cb # "rdkafka" THEN cr
    ELSE [SetThreadidCallback(CRYPTO_set_locking_callback(cr, "NULL"),
                              "NULL")
             EXCEPT !.mutexes = {}, !.held = {},
                    !.freed_twice = (cr.locks = "FREED"),
                    !.locks = "FREED"]

GlobalUnchanged ==
    UNCHANGED <<others, rk_conf, rkb_nodename, peer, rktrans_ssl, ssl, rkb_state,
                errQueue, rd_errno, slice, wire, rbuf, inbound, ctx>>

rd_kafka_ssl_init ==
    /\ crashed = "no"
    /\ crypto.inits < MaxCalls
    /\ crypto' = [(IF crypto.legacy THEN SslInit(crypto) ELSE crypto)
                     EXCEPT !.inits = @ + 1]
    /\ last' = [NoLast EXCEPT !.op = "ssl_init", !.prev = last.op]
    /\ UNCHANGED crashed
    /\ GlobalUnchanged

\* Destroying a mutex that is locked is undefined: the process may die.
rd_kafka_ssl_term ==
    /\ crashed = "no"
    /\ crypto.terms < MaxCalls
    /\ crypto' = [(IF crypto.legacy THEN SslTerm(crypto) ELSE crypto)
                     EXCEPT !.terms = @ + 1]
    /\ last' = [NoLast EXCEPT !.op = "ssl_term", !.prev = last.op,
                              !.ub = (crypto.legacy
                                      /\ crypto.locking_cb = "rdkafka"
                                      /\ crypto.held # {})]
    /\ \/ UNCHANGED crashed
       \/ /\ crypto.legacy /\ crypto.locking_cb = "rdkafka"
          /\ crypto.held # {}
          /\ crashed' = "ub"
    /\ GlobalUnchanged

\* libcrypto calls the installed locking callback to take or release its
\* lock i; mtx_lock waits while the mutex is held.
rd_kafka_transport_ssl_lock_cb ==
    /\ crashed = "no"
    /\ crypto.legacy
    /\ crypto.locking_cb = "rdkafka"
    /\ \E i \in 0..(crypto.num_locks - 1), lock \in BOOLEAN :
          /\ IF lock THEN i \notin crypto.held ELSE i \in crypto.held
          /\ crypto' = [crypto EXCEPT
                          !.held = IF lock THEN @ \cup {i} ELSE @ \ {i}]
    /\ last' = [NoLast EXCEPT !.op = "lock_cb", !.prev = last.op]
    /\ UNCHANGED crashed
    /\ GlobalUnchanged

\* Another party of the process installs or removes its own callbacks.
OtherSetsLocking ==
    /\ crashed = "no"
    /\ crypto.legacy
    /\ crypto.held = {}
    /\ \E cb \in {"other", "NULL"} :
          /\ cb # crypto.locking_cb
          /\ crypto.locking_cb = "rdkafka" => cb = "other"
          /\ crypto' = CRYPTO_set_locking_callback(crypto, cb)
    /\ last' = [NoLast EXCEPT !.op = "other", !.prev = last.op]
    /\ UNCHANGED crashed
    /\ GlobalUnchanged

OtherSetsThreadid ==
    /\ crashed = "no"
    /\ crypto.legacy
    /\ crypto.threadid_cb = "NULL"
    /\ crypto' = SetThreadidCallback(crypto, "other")
    /\ last' = [NoLast EXCEPT !.op = "other", !.prev = last.op]
    /\ UNCHANGED crashed
    /\ GlobalUnchanged

\* ------------------------------------------------------ the session spec
SessConfs ==
    [enable_verify : BOOLEAN, cert_verify_cb : BOOLEAN,
     endpoint_identification : {"NONE", "HTTPS"}, ctx : {"CTX"}]
SessNodenames == { <<"g", ":", "1">> }
PeerChains == UNION { [1..n -> LibVerdicts] : n \in 0..MaxChain }

Init ==
    /\ rk_conf \in SessConfs
    /\ rkb_nodename \in SessNodenames
    /\ peer \in [chain : PeerChains]
    /\ rktrans_ssl = "NULL"
    /\ ssl = NoSsl
    /\ rkb_state = "INIT"
    /\ errQueue = << >>
    /\ rd_errno = 0
    /\ slice = EmptySlice
    /\ wire = << >>
    /\ rbuf = EmptyBuf
    /\ inbound = 0
    /\ last = NoLast
    /\ crashed = "no"
    /\ ctx = SSL_CTX_set_verify(BuiltCtx, rk_conf)
    /\ crypto = NoCrypto
    /\ others = NoOthers

Next ==
    \/ rd_kafka_transport_ssl_connect
    \/ rd_kafka_transport_ssl_handshake
    \/ rd_kafka_transport_ssl_send
    \/ rd_kafka_transport_ssl_recv
    \/ rd_kafka_transport_ssl_close
    \/ NewSlice
    \/ NewBuf
    \/ PeerData

Spec == Init /\ [][Next]_vars

\* The session from open to close, without the transfers.
NextHs ==
    \/ rd_kafka_transport_ssl_connect
    \/ rd_kafka_transport_ssl_handshake
    \/ rd_kafka_transport_ssl_close

SpecHs == Init /\ [][NextHs]_vars

\* ------------------------------------- sessions of other broker threads
\* Every broker thread runs the same functions on its own transport, with
\* its own error queue and errno; what the threads share is rk_conf and the
\* context rk_conf.ssl.ctx points to.
OtherFrame == UNCHANGED <<rk_conf, sessVars, last, crypto>>
\* rd_kafka_transport_ssl_connect on thread t: SSL_new, then the first
\* handshake step.
OtherConnect(t) ==
    /\ others[t] = "none"
    /\ rk_conf.ctx # "NULL"
    /\ ctx' = SSL_new(ctx)
    /\ \E r \in {"handshake", "up", "down"} :
          others' = [others EXCEPT ![t] = r]
    /\ OtherFrame
\* rd_kafka_transport_ssl_handshake on thread t: the handshake completes or
\* fails (a step that wants more I/O leaves everything as it is).
OtherHandshake(t) ==
    /\ others[t] = "handshake"
    /\ \E r \in {"up", "down"} : others' = [others EXCEPT ![t] = r]
    /\ OtherFrame /\ UNCHANGED ctx
\* rd_kafka_transport_ssl_send / rd_kafka_transport_ssl_recv on thread t:
\* a transfer that fails (one that makes progress changes the thread's own
\* slice or buffer only).
OtherTransfer(t) ==
    /\ others[t] = "up"
    /\ others' = [others EXCEPT ![t] = "down"]
    /\ OtherFrame /\ UNCHANGED ctx
\* rd_kafka_transport_ssl_close on thread t: SSL_shutdown, SSL_free.
OtherClose(t) ==
    /\ others[t] # "none"
    /\ others' = [others EXCEPT ![t] = "none"]
    /\ ctx' = SSL_free(ctx)
    /\ OtherFrame

\* One session followed through its whole life with its transfers, while
\* other broker threads open, drive and close theirs on the same context.
SharedConfs ==
    [enable_verify : {TRUE}, cert_verify_cb : {FALSE},
     endpoint_identification : {"NONE", "HTTPS"}, ctx : {"CTX"}]
InitShared ==
    /\ rk_conf \in SharedConfs
    /\ rkb_nodename \in SessNodenames
    /\ peer = [chain |-> <<X509_V_OK>>]
    /\ rktrans_ssl = "NULL"
    /\ ssl = NoSsl
    /\ rkb_state = "INIT"
    /\ errQueue = << >>
    /\ rd_errno = 0
    /\ slice = EmptySlice
    /\ wire = << >>
    /\ rbuf = EmptyBuf
    /\ inbound = 0
    /\ last = NoLast
    /\ crashed = "no"
    /\ ctx = SSL_CTX_set_verify(BuiltCtx, rk_conf)
    /\ crypto = NoCrypto
    /\ others = NoOthers
\* The protocol layer sends a request, then receives the response the peer
\* sends once it has the whole request.
SharedNewSlice == SubmitSlice(SessBytes)
SharedNewBuf == Len(wire) = SessBytes /\ SubmitBuf(SessBytes)
SharedPeerData == Len(wire) = SessBytes /\ PeerSends(SessBytes)
NextShared ==
    \/ rd_kafka_transport_ssl_connect
    \/ rd_kafka_transport_ssl_handshake
    \/ rd_kafka_transport_ssl_send
    \/ rd_kafka_transport_ssl_recv
    \/ rd_kafka_transport_ssl_close
    \/ SharedNewSlice
    \/ SharedNewBuf
    \/ SharedPeerData
    \/ \E t \in 1..MaxOthers :
          \/ OtherConnect(t)
          \/ OtherHandshake(t)
          \/ OtherTransfer(t)
          \/ OtherClose(t)

SpecShared == InitShared /\ [][NextShared]_vars

\* --------------------------------------------- transfers on a session
\* An established session (the state a completed handshake leaves) on which
\* the protocol layer sends, respectively receives.
EstablishedSsl ==
    [NewSsl EXCEPT !.fd = TRUE, !.phase = "done", !.peer_cert = TRUE,
                   !.tlsext_host = <<"g">>]
IoNewSlice == SubmitSlice(MaxBytes)
IoNewBuf == SubmitBuf(MaxCap)
IoPeerData == PeerSends(MaxBytes)

InitIO ==
    /\ rk_conf = [enable_verify |-> TRUE, cert_verify_cb |-> FALSE,
                  endpoint_identification |-> "NONE", ctx |-> "CTX"]
    /\ rkb_nodename = <<"g", ":", "1">>
    /\ peer = [chain |-> <<X509_V_OK>>]
    /\ rktrans_ssl = "SSL"
    /\ ssl = EstablishedSsl
    /\ rkb_state = "UP"
    /\ errQueue \in Junk
    /\ rd_errno \in {0, 1}
    /\ slice = EmptySlice
    /\ wire = << >>
    /\ rbuf = EmptyBuf
    /\ inbound = 0
    /\ last = NoLast
    /\ crashed = "no"
    /\ ctx = SSL_new(SSL_CTX_set_verify(BuiltCtx, rk_conf))
    /\ crypto = NoCrypto
    /\ others = NoOthers

NextSend ==
    \/ rd_kafka_transport_ssl_send
    \/ IoNewSlice

SpecSend == InitIO /\ [][NextSend]_vars

NextRecv ==
    \/ rd_kafka_transport_ssl_recv
    \/ IoNewBuf
    \/ IoPeerData

SpecRecv == InitIO /\ [][NextRecv]_vars

\* Both transfers on one session: the protocol layer sends its requests,
\* then receives the response the peer sends once it has them all.
IoRespBuf == Len(wire) = MaxBytes /\ IoNewBuf
IoRespData == Len(wire) = MaxBytes /\ IoPeerData
NextIo ==
    \/ rd_kafka_transport_ssl_send
    \/ rd_kafka_transport_ssl_recv
    \/ IoNewSlice
    \/ IoRespBuf
    \/ IoRespData

SpecIo == InitIO /\ [][NextIo]_vars

\* ------------------------------------------ configuration construction
\* One client handle whose configuration names any combination of
\* certificate and key sources; the context is constructed, then freed.
Idents == 0..MaxIdent
\* Key pairs are interchangeable: the sources name them in order of first
\* use (the first configured source holds pair 1, the next new pair is 2).
CanonicalIdents(conf) ==
    LET ids == <<conf.cert, conf.cert_location, conf.cert_pem, conf.key,
                 conf.key_location, conf.key_pem, conf.keystore_location>>
    IN  \A i \in 1..Len(ids) :
            ids[i] <= 1 + SetMax({0} \cup { ids[j] : j \in 1..(i-1) })
CertConfs ==
  { conf \in
    [enable_verify : {TRUE}, cert_verify_cb : {FALSE},
     endpoint_identification : {"NONE"}, ctx : {"NULL"},
     cipher_suites : {FALSE}, curves_list : {FALSE}, sigalgs_list : {FALSE},
     ca : {FALSE}, ca_store : {"NULL"}, ca_location : {FALSE},
     crl_location : {FALSE},
     cert : Idents, cert_location : Idents, cert_pem : Idents,
     key : Idents, key_location : Idents, key_pem : Idents,
     keystore_location : Idents, key_pem_scrubbed : {FALSE}]
    : CanonicalIdents(conf) }

InitCerts ==
    /\ rk_conf \in CertConfs
    /\ rkb_nodename = <<"g", ":", "1">>
    /\ peer = [chain |-> <<X509_V_OK>>]
    /\ rktrans_ssl = "NULL"
    /\ ssl = NoSsl
    /\ rkb_state = "INIT"
    /\ errQueue = << >>
    /\ rd_errno = 0
    /\ slice = EmptySlice
    /\ wire = << >>
    /\ rbuf = EmptyBuf
    /\ inbound = 0
    /\ last = NoLast
    /\ crashed = "no"
    /\ ctx = NoCtx
    /\ crypto = NoCrypto
    /\ others = NoOthers

NextCerts ==
    \/ rd_kafka_ssl_ctx_init
    \/ rd_kafka_ssl_ctx_term

SpecCerts == InitCerts /\ [][NextCerts]_vars

\* One client handle whose configuration names any combination of CA, CRL,
\* certificate, key and archive sources, all of one key pair, on either
\* kind of build.
LoaderConfs ==
    { conf \in
      [enable_verify : {TRUE}, cert_verify_cb : {FALSE},
       endpoint_identification : {"NONE"}, ctx : {"NULL"},
       cipher_suites : BOOLEAN, curves_list : {FALSE}, sigalgs_list : {FALSE},
       ca : BOOLEAN, ca_store : {"NULL", "STORE"}, ca_location : BOOLEAN,
       crl_location : BOOLEAN,
       cert : {0, 1}, cert_location : {0, 1}, cert_pem : {0, 1},
       key : {0, 1}, key_location : {0, 1}, key_pem : {0, 1},
       keystore_location : {0, 1}, key_pem_scrubbed : {FALSE}]
      : conf.ca_store = (IF conf.ca THEN "STORE" ELSE "NULL") }

InitLoader ==
    /\ rk_conf \in LoaderConfs
    /\ rkb_nodename = <<"g", ":", "1">>
    /\ peer = [chain |-> <<X509_V_OK>>]
    /\ rktrans_ssl = "NULL"
    /\ ssl = NoSsl
    /\ rkb_state = "INIT"
    /\ errQueue = << >>
    /\ rd_errno = 0
    /\ slice = EmptySlice
    /\ wire = << >>
    /\ rbuf = EmptyBuf
    /\ inbound = 0
    /\ last = NoLast
    /\ crashed = "no"
    /\ ctx = NoCtx
    /\ \E w \in BOOLEAN : crypto = [NoCrypto EXCEPT !.msc_ver = w]
    /\ others = NoOthers

SpecLoader == InitLoader /\ [][NextCerts]_vars

\* ------------------------------------------------ the endpoint name spec
\* The kinds of host a broker address is written with.  A symbolic name is
\* made of dot-separated labels of letters and digits and holds a letter; an
\* IPv4 literal is dotted decimal; an IPv6 literal is a compressed
\* hexadecimal address (one "::"), optionally followed by "%" and a zone
\* name, optionally in brackets.
Letters == HexLetters \cup OtherLetters
DotSeparated(h, S) ==
    /\ h # << >>
    /\ \A i \in 1..Len(h) : h[i] \in S \cup {"."}
    /\ h[1] # "." /\ h[Len(h)] # "."
    /\ \A i \in 1..(Len(h) - 1) : ~(h[i] = "." /\ h[i+1] = ".")
IsSymbolicName(h) ==
    /\ DotSeparated(h, Letters \cup Digits)
    /\ \E i \in 1..Len(h) : h[i] \in Letters
IsIPv4Literal(h) ==
    /\ DotSeparated(h, Digits)
    /\ HasChar(h, ".")
IsIPv6Address(a) ==
    /\ \A i \in 1..Len(a) : a[i] \in Digits \cup HexLetters \cup {":"}
    /\ Cardinality({ i \in 1..(Len(a) - 1) :
                        a[i] = ":" /\ a[i+1] = ":" }) = 1
IsZoneName(z) ==
    /\ z # << >>
    /\ \A i \in 1..Len(z) : z[i] \in Letters \cup Digits
IsScopedIPv6(a) ==
    \/ IsIPv6Address(a)
    \/ \E i \in 1..Len(a) :
          /\ a[i] = "%"
          /\ IsIPv6Address(SubSeq(a, 1, i - 1))
          /\ IsZoneName(SubSeq(a, i + 1, Len(a)))
IsIPv6Literal(h) ==
    \/ IsScopedIPv6(h)
    \/ /\ Len(h) >= 2
       /\ h[1] = "[" /\ h[Len(h)] = "]"
       /\ IsScopedIPv6(SubSeq(h, 2, Len(h) - 1))
Hosts ==
    { h \in UNION { [1..n -> Chars] : n \in 1..MaxHost } :
        IsSymbolicName(h) \/ IsIPv4Literal(h) \/ IsIPv6Literal(h) }

\* A session that rd_kafka_transport_ssl_connect has created and bound to
\* its socket, for a broker of any host; the name is set on it.
InitEndpoint ==
    /\ rk_conf \in [enable_verify : {TRUE}, cert_verify_cb : {FALSE},
                    endpoint_identification : {"NONE", "HTTPS"},
                    ctx : {"CTX"}]
    /\ rkb_nodename \in { h \o <<":", "1">> : h \in Hosts }
    /\ peer = [chain |-> <<X509_V_OK>>]
    /\ rktrans_ssl = "SSL"
    /\ ssl = [NewSsl EXCEPT !.fd = TRUE]
    /\ rkb_state = "INIT"
    /\ errQueue = << >>
    /\ rd_errno = 0
    /\ slice = EmptySlice
    /\ wire = << >>
    /\ rbuf = EmptyBuf
    /\ inbound = 0
    /\ last = NoLast
    /\ crashed = "no"
    /\ ctx = SSL_new(SSL_CTX_set_verify(BuiltCtx, rk_conf))
    /\ crypto = NoCrypto
    /\ others = NoOthers

SetEndpointId ==
    /\ last.op = "none"
    /\ \E sniOk \in BOOLEAN, hostOk \in BOOLEAN :
          LET o == rd_kafka_transport_ssl_set_endpoint_id(
                       ssl, rkb_nodename, rk_conf, errQueue, sniOk, hostOk)
          IN  /\ ssl' = o.ssl
              /\ errQueue' = o.queue
              /\ last' = [NoLast EXCEPT !.op = "set_endpoint_id",
                                        !.ret = o.ret, !.errstr = o.errstr,
                                        !.logged = o.logged]
    /\ UNCHANGED <<others, rk_conf, rkb_nodename, peer, rktrans_ssl, rkb_state,
                   rd_errno, slice, wire, rbuf, inbound, crashed, ctx,
                   crypto>>

NextEndpoint == SetEndpointId

SpecEndpoint == InitEndpoint /\ [][NextEndpoint]_vars

\* ------------------------------------------------- the process-wide spec
InitGlobal ==
    /\ rk_conf = [enable_verify |-> TRUE, cert_verify_cb |-> FALSE,
                  endpoint_identification |-> "NONE", ctx |-> "NULL"]
    /\ rkb_nodename = <<"g", ":", "1">>
    /\ peer = [chain |-> <<X509_V_OK>>]
    /\ rktrans_ssl = "NULL"
    /\ ssl = NoSsl
    /\ rkb_state = "INIT"
    /\ errQueue = << >>
    /\ rd_errno = 0
    /\ slice = EmptySlice
    /\ wire = << >>
    /\ rbuf = EmptyBuf
    /\ inbound = 0
    /\ last = NoLast
    /\ crashed = "no"
    /\ ctx = NoCtx
    /\ \E legacy \in BOOLEAN, api \in BOOLEAN, n \in 1..MaxLocks :
          crypto = [NoCrypto EXCEPT !.legacy = legacy,
                                    !.threadid_api = api, !.num_locks = n]
    /\ others = NoOthers

NextGlobal ==
    \/ rd_kafka_ssl_init
    \/ rd_kafka_ssl_term
    \/ rd_kafka_transport_ssl_lock_cb
    \/ OtherSetsLocking
    \/ OtherSetsThreadid

SpecGlobal == InitGlobal /\ [][NextGlobal]_vars

\* ------------------------------------------------- the error queue spec
\* rd_kafka_ssl_error on its own, as the failure paths call it, on any error
\* queue of up to MaxDrain entries.
DrainEntries == ErrEntries \cup {"e2"}
InitDrain ==
    /\ rk_conf = [enable_verify |-> TRUE, cert_verify_cb |-> FALSE,
                  endpoint_identification |-> "NONE", ctx |-> "CTX"]
    /\ rkb_nodename = <<"g", ":", "1">>
    /\ peer = [chain |-> <<X509_V_OK>>]
    /\ rktrans_ssl = "NULL"
    /\ ssl = NoSsl
    /\ rkb_state = "INIT"
    /\ errQueue \in UNION { [1..n -> DrainEntries] : n \in 0..MaxDrain }
    /\ rd_errno = 0
    /\ slice = EmptySlice
    /\ wire = << >>
    /\ rbuf = EmptyBuf
    /\ inbound = 0
    /\ last = NoLast
    /\ crashed = "no"
    /\ ctx = SSL_CTX_set_verify(BuiltCtx, rk_conf)
    /\ crypto = NoCrypto
    /\ others = NoOthers

DrainErrors ==
    /\ last.op = "none"
    /\ \E d \in { rd_kafka_ssl_error(errQueue) } :
          /\ errQueue' = d.queue
          /\ last' = [NoLast EXCEPT !.op = "ssl_error", !.errstr = d.errstr,
                                    !.logged = d.logged,
                                    !.seen = [queue |-> errQueue,
                                              errno |-> rd_errno]]
    /\ UNCHANGED <<others, rk_conf, rkb_nodename, peer, rktrans_ssl, ssl, rkb_state,
                   rd_errno, slice, wire, rbuf, inbound, crashed, ctx,
                   crypto>>

NextDrain == DrainErrors

SpecDrain == InitDrain /\ [][NextDrain]_vars

\* ------------------------------------------------ the hook, call by call
\* The library verifies the peer's chain from its top certificate down to
\* the leaf and calls the registered hook once per certificate, with the
\* certificate's own verdict in preverify_ok and in the chain's error code;
\* a hook returning 0 ends the verification.
InitHook ==
    /\ rk_conf \in [enable_verify : BOOLEAN, cert_verify_cb : {TRUE},
                    endpoint_identification : {"NONE"}, ctx : {"CTX"}]
    /\ rkb_nodename = <<"g", ":", "1">>
    /\ peer \in [chain : PeerChains \ {<< >>}]
    /\ rktrans_ssl = "SSL"
    /\ ssl = [NewSsl EXCEPT !.fd = TRUE, !.peer_cert = TRUE]
    /\ rkb_state = "CONNECT"
    /\ errQueue = << >>
    /\ rd_errno = 0
    /\ slice = EmptySlice
    /\ wire = << >>
    /\ rbuf = EmptyBuf
    /\ inbound = 0
    /\ last = NoLast
    /\ crashed = "no"
    /\ ctx = SSL_new(SSL_CTX_set_verify(BuiltCtx, rk_conf))
    /\ crypto = NoCrypto
    /\ others = NoOthers

CertVerifyCb ==
    /\ ctx.verify_cb
    /\ ~ssl.hook_reject
    /\ ssl.hooks < Len(peer.chain)
    /\ LET i   == Len(peer.chain) - ssl.hooks
           pre == peer.chain[i] = X509_V_OK
           err == IF pre THEN ssl.verify_result ELSE peer.chain[i]
       IN  \E app \in AppChoices :
           \E h \in { rd_kafka_transport_ssl_cert_verify_cb(
                          IF pre THEN 1 ELSE 0, err, i - 1, app) } :
              /\ ssl' = [ssl EXCEPT !.hooks = @ + 1,
                                    !.verify_result = h.error,
                                    !.hook_reject = (h.ret = 0)]
              /\ last' = [NoLast EXCEPT !.op = "cert_verify_cb",
                                        !.ret = h.ret, !.hook = h]
    /\ UNCHANGED <<others, rk_conf, rkb_nodename, peer, rktrans_ssl,
                   rkb_state, errQueue, rd_errno, slice, wire, rbuf, inbound,
                   crashed, ctx, crypto>>

NextHook == CertVerifyCb

SpecHook == InitHook /\ [][NextHook]_vars

\* ------------------------------------------------- the password callback
\* rk_conf.ssl.key_password is NoPassword (a NULL pointer) or the length of
\* the configured string.  rd_kafka_transport_ssl_passwd_cb(buf, size, ...):
\* the value returned and the number of bytes memcpy placed in buf.
NoPassword == -1
RD_MIN(a, b) == IF a < b THEN a ELSE b
rd_kafka_transport_ssl_passwd_cb(key_password, size) ==
    IF key_password = NoPassword
    THEN [ret |-> -1, placed |-> 0]
    ELSE [ret |-> key_password, placed |-> RD_MIN(key_password, size)]

InitPasswd ==
    /\ rk_conf \in [enable_verify : {TRUE}, cert_verify_cb : {FALSE},
                    endpoint_identification : {"NONE"}, ctx : {"NULL"},
                    key_password : {NoPassword} \cup 0..MaxPass]
    /\ rkb_nodename = <<"g", ":", "1">>
    /\ peer = [chain |-> <<X509_V_OK>>]
    /\ rktrans_ssl = "NULL"
    /\ ssl = NoSsl
    /\ rkb_state = "INIT"
    /\ errQueue = << >>
    /\ rd_errno = 0
    /\ slice = EmptySlice
    /\ wire = << >>
    /\ rbuf = EmptyBuf
    /\ inbound = 0
    /\ last = NoLast
    /\ crashed = "no"
    /\ ctx = [NoCtx EXCEPT !.life = "building", !.refs = 1]
    /\ crypto = NoCrypto
    /\ others = NoOthers

\* The library asks for the password of an encrypted key, with a buffer of
\* `size` bytes.
PasswdCb ==
    /\ last.op = "none"
    /\ \E size \in 1..MaxPass :
       \E r \in { rd_kafka_transport_ssl_passwd_cb(rk_conf.key_password,
                                                   size) } :
          last' = [NoLast EXCEPT !.op = "passwd_cb", !.ret = r.ret,
                                 !.buf = [size |-> size, placed |-> r.placed]]
    /\ UNCHANGED <<others, rk_conf, rkb_nodename, peer, rktrans_ssl, ssl,
                   rkb_state, errQueue, rd_errno, slice, wire, rbuf, inbound,
                   crashed, ctx, crypto>>

NextPasswd == PasswdCb

SpecPasswd == InitPasswd /\ [][NextPasswd]_vars

\* ================================================================ claims

\* C1: on an established session the bytes SSL_write accepted are exactly
\* the submitted bytes, in submission order, none repeated and none skipped,
\* up to the slice position: the cursor has advanced by exactly what the
\* writes accepted (checked under SpecSend).
C1_SendExactlyOnce ==
    /\ crashed = "no"
    /\ wire = [i \in 1..(slice.base + slice.pos) |-> i]
\* A second slice is partly sent: the last send ended on a short write.
C1_Witness ==
    /\ last.op = "send"
    /\ slice.base > 0
    /\ last.ret >= 1
    /\ last.ret < last.cap0
    /\ Len(wire) = slice.base + slice.pos

\* C2: the count a receive call reports, and the distance it advanced the
\* buffer's write position by, never exceed the writable capacity the buffer
\* had when the call began (checked under SpecRecv).
C2_RecvWithinCapacity ==
    last.op = "recv" =>
        /\ last.ret <= last.cap0
        /\ rbuf.pos - last.pos0 <= last.cap0
\* A receive call filled a buffer of several segments to its capacity.
C2_Witness ==
    /\ last.op = "recv"
    /\ last.nprim >= 2
    /\ last.cap0 >= 2
    /\ last.ret = last.cap0

\* C3: with peer verification enabled, the connection to a peer that
\* presents no certificate is never marked established, and a handshake step
\* whose library handshake completes against it is fatal with the
\* missing-certificate diagnostic (checked under SpecHs).
C3_NoCertificateIsFatal ==
    (rk_conf.enable_verify /\ peer.chain = << >>) =>
        /\ rkb_state # "UP"
        /\ (last.op \in {"connect", "handshake"} /\ ssl.phase = "done") =>
              /\ last.ret = -1
              /\ last.fail = << <<"Broker did not provide a certificate">> >>

\* C4 as stated: with an application verification callback configured and a
\* valid peer chain, one reject from the hook keeps the connection from
\* being established, whatever the verification mode (checked under SpecHs).
ValidChain == peer.chain # << >> /\ \A i \in 1..Len(peer.chain) :
                                        peer.chain[i] = X509_V_OK
C4_Original ==
    (rk_conf.cert_verify_cb /\ ValidChain /\ rktrans_ssl = "SSL") =>
        (ssl.hook_reject => rkb_state # "UP")
\* C4 amended: with peer verification enabled and an application
\* verification callback configured, against a peer whose chain is valid:
\* the connection is established only after the hook accepted every
\* certificate of the chain, a call in which the hook rejected one is fatal
\* and the connection is never established afterwards, and the call in which
\* the library completes the handshake after the hook accepted them all
\* reports Established.
C4_EstablishedIffAllAccepted ==
    (rk_conf.enable_verify /\ rk_conf.cert_verify_cb /\ ValidChain
        /\ rktrans_ssl = "SSL") =>
        /\ rkb_state = "UP" =>
              ssl.hooks = Len(peer.chain) /\ ~ssl.hook_reject
        /\ ssl.hook_reject =>
              /\ rkb_state # "UP"
              /\ last.op \in {"connect", "handshake"} => last.ret = -1
        /\ (last.op \in {"connect", "handshake"} /\ ssl.phase = "done"
              /\ ssl.hooks = Len(peer.chain) /\ ~ssl.hook_reject) =>
              /\ rkb_state = "UP"
              /\ last.done = 1
              /\ last.ret = (IF last.op = "connect" THEN 0 ELSE 1)
\* The hook accepted both certificates of a valid chain in an earlier step
\* and this handshake step reported Established.
C4_Witness ==
    /\ rk_conf.enable_verify /\ rk_conf.cert_verify_cb /\ ValidChain
    /\ Len(peer.chain) = 2
    /\ ssl.hooks = 2 /\ ~ssl.hook_reject
    /\ last.op = "handshake" /\ last.ret = 1 /\ last.hooks = << >>
    /\ rkb_state = "UP"

\* C5: whenever a call marks the connection established with peer
\* verification enabled, the post-handshake check (certificate present,
\* verification result OK) ran and passed in that call (checked under
\* SpecHs).
C5_EstablishedOnlyVerified ==
    (rk_conf.enable_verify /\ last.done > 0) => last.verify = "pass"

\* C6: closing never crashes and leaves no session, and a send, receive or
\* handshake step on a transport without a session is rejected with an
\* error outcome instead of handing the absent session to the library
\* (checked under Spec).
C6_CloseSafeAndClosedRejects ==
    /\ crashed = "no"
    /\ last.op = "close" => rktrans_ssl = "NULL" /\ ~last.ub
    /\ (last.op \in {"send", "recv", "handshake"} /\ rktrans_ssl = "NULL") =>
          last.ret = -1 /\ ~last.ub

\* C10: a failed transfer or handshake result is classified non-fatal
\* exactly when the library signals want-read (read readiness is then
\* requested) or want-write / want-connect (write readiness is then
\* requested); every other code is fatal and requests no readiness (checked
\* under SpecHs).
C10_Classification ==
    (last.op \in {"connect", "handshake"} /\ last.serr # "none") =>
        /\ last.serr \in SslErrors
        /\ last.ret \in {0, -1}
        /\ last.ret = 0 <=>
              last.serr \in {"WANT_READ", "WANT_WRITE", "WANT_CONNECT"}
        /\ last.poll = CASE last.serr = "WANT_READ" -> {"POLLIN"}
                         [] last.serr \in {"WANT_WRITE", "WANT_CONNECT"} ->
                                {"POLLOUT"}
                         [] OTHER -> {}
\* The library signalled want-connect: write readiness requested, not fatal.
C10_Witness ==
    /\ last.op = "connect"
    /\ last.serr = "WANT_CONNECT"
    /\ last.ret = 0
    /\ last.poll = {"POLLOUT"}

\* The certificate and the key a configuration puts in effect when every
\* source loads: the archive's when one is configured, else the last source
\* in the loader's order (0: none).
EffCert(conf) ==
    IF conf.keystore_location # 0 THEN conf.keystore_location
    ELSE IF conf.cert_pem # 0 THEN conf.cert_pem
    ELSE IF conf.cert_location # 0 THEN conf.cert_location
    ELSE conf.cert
EffKey(conf) ==
    IF conf.keystore_location # 0 THEN conf.keystore_location
    ELSE IF conf.key_pem # 0 THEN conf.key_pem
    ELSE IF conf.key_location # 0 THEN conf.key_location
    ELSE conf.key
\* Every configured certificate and key is of one key pair, and there is
\* at least one of each.
MatchingPair(conf) ==
    LET ids == {conf.cert, conf.cert_location, conf.cert_pem, conf.key,
                conf.key_location, conf.key_pem, conf.keystore_location}
                   \ {0}
    IN  /\ Cardinality(ids) = 1
        /\ EffCert(conf) # 0
        /\ EffKey(conf) # 0
MismatchedPair(conf) ==
    /\ EffCert(conf) # 0
    /\ EffKey(conf) # 0
    /\ EffCert(conf) # EffKey(conf)
KeyDiags == { Diag(f) : f \in {"key", "key_location", "key_pem"} }

\* C7 as stated: the match check runs if and only if a private key was
\* installed; when no source is unreadable or malformed, a matching pair
\* makes construction succeed and a mismatched pair makes it fail with the
\* prefix "Private key check failed" (checked under SpecCerts).
C7_Original ==
    (last.op = "ctx_init" /\ last.load.fault = "none") =>
        /\ last.load.check # "none" <=> last.load.installed # {}
        /\ MatchingPair(rk_conf) => last.ret = 0
        /\ MismatchedPair(rk_conf) =>
              /\ last.ret = -1
              /\ last.errstr[1] = "Private key check failed: "
\* C7 amended: the match check runs only after a private key was
\* installed, and construction never succeeds with a key installed and the
\* check not run and passed; when no source is unreadable or malformed a
\* matching pair makes construction succeed; a mismatched pair always
\* makes it fail: with the prefix "Private key check failed" when the check
\* ran, and otherwise, when no source is unreadable or malformed, with the
\* prefix of the key source whose key the library refused to install.
C7_KeyCheck ==
    last.op = "ctx_init" =>
        /\ last.load.check # "none" => last.load.installed # {}
        /\ (last.ret = 0 /\ last.load.installed # {}) =>
              last.load.check = "ok"
        /\ last.load.check = "failed" <=>
              (last.ret = -1 /\ last.errstr[1] = "Private key check failed: ")
        /\ (MatchingPair(rk_conf) /\ last.load.fault = "none") =>
              /\ last.ret = 0
              /\ last.load.check = "ok"
              /\ ctx.cert = EffCert(rk_conf) /\ ctx.key = EffKey(rk_conf)
        /\ MismatchedPair(rk_conf) =>
              /\ last.ret = -1
              /\ last.load.fault = "none" =>
                    \/ last.load.check = "failed"
                    \/ last.errstr[1] \in KeyDiags
\* A mismatched pair whose key the library installed: the check ran and
\* construction failed on it.
C7_Witness ==
    /\ last.op = "ctx_init"
    /\ MismatchedPair(rk_conf)
    /\ last.load.installed # {}
    /\ last.load.check = "failed"
    /\ last.ret = -1
    /\ last.errstr[1] = "Private key check failed: "

\* C8: rd_kafka_ssl_init followed at once by rd_kafka_ssl_term, the first
\* call of each, leaves nothing of this file behind: no initialised lock
\* object, no allocated or lost lock table, and neither the locking nor the
\* thread-id callback of this file installed (checked under SpecGlobal).
C8_InitTermLeavesNothing ==
    (last.op = "ssl_term" /\ last.prev = "ssl_init"
        /\ crypto.inits = 1 /\ crypto.terms = 1) =>
        /\ crypto.mutexes = {}
        /\ crypto.locks # "ALLOC"
        /\ crypto.leaked = 0
        /\ crypto.locking_cb # "rdkafka"
        /\ crypto.threadid_cb # "rdkafka"

\* C9: for every address host:port the name set on the session is the
\* host, and it is sent for SNI if and only if the host is a symbolic name:
\* an IPv4 or IPv6 literal is never sent (checked under SpecEndpoint).
C9_SniIffSymbolic ==
    (last.op = "set_endpoint_id" /\ last.ret = 0) =>
        LET host == SubSeq(rkb_nodename, 1, Len(rkb_nodename) - 2)
        IN  /\ ssl.tlsext_host # NoName => ssl.tlsext_host = host
            /\ rk_conf.endpoint_identification # "NONE" => ssl.host = host
            /\ ssl.tlsext_host # NoName <=> IsSymbolicName(host)
            /\ (IsIPv4Literal(host) \/ IsIPv6Literal(host)) =>
                  ssl.tlsext_host = NoName

\* The session calls that classify a failed library call.
IoOps == {"connect", "handshake", "send", "recv"}
\* The library signalled a clean shutdown by the peer.
CleanShutdown == last.serr = "ZERO_RETURN"
\* The library signalled a transport failure with nothing in the error queue
\* and errno unset.
QuietSyscall ==
    /\ last.serr = "SYSCALL"
    /\ last.seen.queue = << >>
    /\ last.seen.errno = 0

\* C11: a call to which the library signals a clean shutdown, or a transport
\* failure with an empty error queue and no errno, is fatal with the
\* diagnostic "Disconnected" (the handshake step hands it to the connection
\* behind its prefix), and no other call ends with that diagnostic (checked
\* under SpecHs).
C11_Disconnected ==
    /\ (last.op \in IoOps /\ (CleanShutdown \/ QuietSyscall)) =>
          /\ last.ret = -1
          /\ last.errstr = <<"Disconnected">>
          /\ last.op = "handshake" =>
                last.fail = << <<"SSL handshake failed: ", "Disconnected">> >>
    /\ last.errstr = <<"Disconnected">> =>
          last.op \in IoOps /\ (CleanShutdown \/ QuietSyscall)
\* A handshake step met a transport failure with nothing queued and no
\* errno, and failed the connection with the diagnostic.
C11_Witness ==
    /\ last.op = "handshake"
    /\ QuietSyscall
    /\ last.ret = -1
    /\ last.errstr = <<"Disconnected">>
    /\ rkb_state = "DOWN"

\* C12 as stated: a transport failure signalled while errno is set is fatal
\* with the description of that errno, whatever the error queue holds
\* (checked under SpecHs).
C12_Original ==
    (last.op \in IoOps /\ last.serr = "SYSCALL" /\ last.seen.errno # 0) =>
        /\ last.ret = -1
        /\ last.errstr = <<"SSL transport error: ">>
                             \o rd_strerror(last.seen.errno)
\* C12 amended: a transport failure signalled while errno is set and the
\* error queue is empty is fatal with the description of that errno; with
\* entries in the error queue it is fatal with the last entry of the queue,
\* whatever errno holds.
C12_OsErrorDescription ==
    (last.op \in IoOps /\ last.serr = "SYSCALL") =>
        /\ last.ret = -1
        /\ (last.seen.errno # 0 /\ last.seen.queue = << >>) =>
              last.errstr = <<"SSL transport error: ">>
                               \o rd_strerror(last.seen.errno)
        /\ last.seen.queue # << >> =>
              last.errstr = FormatErr(last.seen.queue[Len(last.seen.queue)])
\* A handshake step met a transport failure with errno set and nothing
\* queued.
C12_Witness ==
    /\ last.op = "handshake"
    /\ last.serr = "SYSCALL"
    /\ last.seen.errno # 0
    /\ last.seen.queue = << >>
    /\ last.errstr = <<"SSL transport error: ">> \o rd_strerror(last.seen.errno)

\* C13: draining a queue of n entries logs its first n-1 entries, formatted,
\* in queue order, leaves the formatted last entry in the output buffer and
\* the queue empty; draining an empty queue logs nothing and leaves
\* "No error" in the output buffer (checked under SpecDrain).
C13_Drain ==
    last.op = "ssl_error" =>
        LET q == last.seen.queue
        IN  /\ errQueue = << >>
            /\ Len(last.logged) = (IF q = << >> THEN 0 ELSE Len(q) - 1)
            /\ \A i \in 1..Len(last.logged) :
                    last.logged[i] = FormatErr(q[i])
            /\ last.errstr = (IF q = << >> THEN <<"No error">>
                              ELSE FormatErr(q[Len(q)]))
\* A queue of three different entries was drained.
C13_Witness ==
    /\ last.op = "ssl_error"
    /\ Len(last.seen.queue) = 3
    /\ Cardinality({ last.seen.queue[i] : i \in 1..3 }) = 3
    /\ Len(last.logged) = 2
    /\ errQueue = << >>

\* The CA sources the loader consulted, in the order it consulted them.
IsCaSource(x) ==
    x \in {"ssl_ca", "ssl.ca.location", "win_store", "default_paths"}
CaSteps == SelectSeq(last.load.steps, IsCaSource)
\* rd_kafka_ssl_set_certs was entered by the last rd_kafka_ssl_ctx_init.
LoaderRan == last.op = "ctx_init" /\ last.load.steps # << >>

\* C14: for every combination of CA sources the loader consults the store
\* set in memory and nothing else when there is one; else ssl.ca.location
\* and nothing else when it is set; else the platform store (a Windows
\* build) and, only when that gave nothing or there is none, the library's
\* default paths; the trust store of a constructed context holds the
\* certificates of the one source used (checked under SpecLoader).
C14_CaPriority ==
    LoaderRan =>
        /\ rk_conf.ca => CaSteps = <<"ssl_ca">>
        /\ (~rk_conf.ca /\ rk_conf.ca_location) =>
              CaSteps = <<"ssl.ca.location">>
        /\ (~rk_conf.ca /\ ~rk_conf.ca_location) =>
              CaSteps = IF ~crypto.msc_ver THEN <<"default_paths">>
                        ELSE IF "win_store" \in ctx.ca /\ last.ret = 0
                        THEN <<"win_store">>
                        ELSE IF last.ret = 0
                        THEN <<"win_store", "default_paths">>
                        ELSE CaSteps
        /\ last.ret = 0 =>
              /\ ctx.ca \subseteq {CaSteps[Len(CaSteps)]}
              /\ ctx.ca = {} => last.load.fault = "default_paths"
\* A store set in memory and ssl.ca.location are both configured: only the
\* store is used.
C14_Witness ==
    /\ LoaderRan
    /\ rk_conf.ca /\ rk_conf.ca_location
    /\ last.ret = 0
    /\ CaSteps = <<"ssl_ca">>
    /\ ctx.ca = {"ssl_ca"}

\* The first configured certificate (key) source in the order in-memory
\* object, file, PEM string (0: none), and the number configured.
FirstCert(conf) ==
    IF conf.cert # 0 THEN conf.cert
    ELSE IF conf.cert_location # 0 THEN conf.cert_location
    ELSE conf.cert_pem
FirstKey(conf) ==
    IF conf.key # 0 THEN conf.key
    ELSE IF conf.key_location # 0 THEN conf.key_location
    ELSE conf.key_pem
CertSources(conf) ==
    Cardinality({ n \in {"cert", "cert_location", "cert_pem"} : conf[n] # 0 })
KeySources(conf) ==
    Cardinality({ n \in {"key", "key_location", "key_pem"} : conf[n] # 0 })

\* C15: in a context constructed without an archive, from more than one
\* certificate (key) source, the certificate (key) in place is the one of
\* the first configured source in the order in-memory object, file, PEM
\* string (checked under SpecCerts).
C15_SourcePriority ==
    (last.op = "ctx_init" /\ last.ret = 0
        /\ rk_conf.keystore_location = 0) =>
        /\ CertSources(rk_conf) > 1 => ctx.cert = FirstCert(rk_conf)
        /\ KeySources(rk_conf) > 1 => ctx.key = FirstKey(rk_conf)

\* C16: when an archive is configured next to individual certificate or key
\* sources and every source loads, the archive's included, construction
\* succeeds and the certificate and the key in place are the archive's
\* (checked under SpecCerts).
C16_ArchiveOverrides ==
    (last.op = "ctx_init"
        /\ CertSources(rk_conf) + KeySources(rk_conf) > 0
        /\ "ssl.keystore.location" \in last.load.installed) =>
        /\ last.ret = 0
        /\ last.load.check = "ok"
        /\ ctx.cert = rk_conf.keystore_location
        /\ ctx.key = rk_conf.keystore_location
\* A certificate and a key of one pair from PEM strings, and an archive
\* holding another pair.
C16_Witness ==
    /\ last.op = "ctx_init"
    /\ last.ret = 0
    /\ rk_conf.cert_pem # 0 /\ rk_conf.key_pem = rk_conf.cert_pem
    /\ rk_conf.keystore_location \notin {0, rk_conf.cert_pem}
    /\ ctx.cert = rk_conf.keystore_location
    /\ ctx.key = rk_conf.keystore_location

\* The sources the configuration makes the loader go through, in the
\* loader's order, after the CA sources it consulted.
ConfiguredSteps ==
    LET opt(on, name) == IF on THEN <<name>> ELSE << >>
    IN  CaSteps
        \o opt(rk_conf.crl_location, "ssl.crl.location")
        \o opt(rk_conf.cert # 0, "ssl_cert")
        \o opt(rk_conf.cert_location # 0, "ssl.certificate.location")
        \o opt(rk_conf.cert_pem # 0, "ssl.certificate.pem")
        \o opt(rk_conf.key # 0, "ssl_key")
        \o opt(rk_conf.key_location # 0, "ssl.key.location")
        \o opt(rk_conf.key_pem # 0, "ssl.key.pem")
        \o opt(rk_conf.keystore_location # 0, "ssl.keystore.location")
\* The configuration option a diagnostic prefix names ("none": it names no
\* option).
OptionNamed(prefix) ==
    CASE prefix = "ssl.ca.location failed: " -> "ssl.ca.location"
      [] prefix = "ssl.crl.location failed: " -> "ssl.crl.location"
      [] prefix = "ssl_cert failed: " -> "ssl_cert"
      [] prefix = "ssl.certificate.location failed: " ->
            "ssl.certificate.location"
      [] prefix \in {"ssl.certificate.pem failed: not in PEM format?: ",
                     "ssl.certificate.pem failed: "} -> "ssl.certificate.pem"
      [] prefix = "ssl_key (in-memory) failed: " -> "ssl_key"
      [] prefix = "ssl.key.location failed: " -> "ssl.key.location"
      [] prefix \in {"ssl.key.pem failed: not in PEM format?: ",
                     "ssl.key.pem failed: "} -> "ssl.key.pem"
      [] prefix \in {"Failed to open ssl.keystore.location: ",
                     "Failed to use ssl.keystore.location certificate: ",
                     "Failed to use ssl.keystore.location private key: "} ->
            "ssl.keystore.location"
      [] OTHER -> "none"
\* The loader went through the configured sources in order and stopped at
\* the first one that failed.
LoaderStopsAtFirstFailure ==
    LoaderRan =>
        /\ Len(last.load.steps) <= Len(ConfiguredSteps)
        /\ last.load.steps = SubSeq(ConfiguredSteps, 1, Len(last.load.steps))
        /\ last.ret = 0 =>
              /\ last.load.steps = ConfiguredSteps
              /\ last.load.check = IF last.load.installed # {} THEN "ok"
                                   ELSE "none"
        /\ last.ret = -1 =>
              /\ rk_conf.ctx = "NULL"
              /\ ctx.life = "freed"
              /\ last.load.check \in {"none", "failed"}
              /\ last.load.check = "failed" =>
                    last.load.steps = ConfiguredSteps
        /\ (last.load.fault \notin {"none", "default_paths"}) =>
              last.ret = -1

\* C17: the loader goes through CA, CRL, certificate, key, archive and key
\* check in this order, stops at the first source that fails, construction
\* then fails, and the diagnostic starts with a prefix that names the
\* configuration option of the source that failed (checked under
\* SpecLoader).
C17_FirstFailureNamesOption ==
    /\ LoaderStopsAtFirstFailure
    /\ (LoaderRan /\ last.ret = -1 /\ last.load.check # "failed") =>
          OptionNamed(last.errstr[1])
              = last.load.steps[Len(last.load.steps)]

\* C20: with no CA store set in memory and no ssl.ca.location, when the
\* library's default paths fail to load, the loader goes on through every
\* other configured source and construction succeeds with an empty trust
\* store (it fails only on a key without its certificate) (checked under
\* SpecLoader).
C20_DefaultPathsFailureIgnored ==
    (LoaderRan /\ last.load.fault = "default_paths"
        /\ CaSteps # << >> /\ CaSteps[Len(CaSteps)] = "default_paths") =>
        /\ last.load.steps = ConfiguredSteps
        /\ last.ret = -1 => last.load.check = "failed"
        /\ (EffKey(rk_conf) = 0 \/ EffCert(rk_conf) = EffKey(rk_conf)) =>
              /\ last.ret = 0
              /\ rk_conf.ctx = "CTX"
              /\ ctx.life = "built"
              /\ ctx.ca = {}
\* The default paths failed after the Windows store gave nothing, a CRL and
\* a certificate with its key were loaded, and the context was constructed.
C20_Witness ==
    /\ LoaderRan
    /\ last.load.fault = "default_paths"
    /\ CaSteps = <<"win_store", "default_paths">>
    /\ rk_conf.crl_location
    /\ rk_conf.cert_pem # 0 /\ rk_conf.key_pem # 0
    /\ last.ret = 0
    /\ ctx.ca = {} /\ ctx.crl

\* C18: a handshake step on a session that is handshaking: when it returns
\* -1 it has called rd_kafka_broker_fail exactly once, with a diagnostic
\* that is not empty, and has not called rd_kafka_transport_connect_done;
\* when it returns 1 it has called rd_kafka_transport_connect_done exactly
\* once and rd_kafka_broker_fail not at all; when it returns 0 it has called
\* neither (checked under SpecHs).
C18_HandshakeNotifications ==
    (last.op = "handshake" /\ ~last.ub) =>
        /\ last.ret \in {-1, 0, 1}
        /\ last.ret = -1 =>
              /\ Len(last.fail) = 1
              /\ last.fail[1] # << >>
              /\ last.done = 0
              /\ rkb_state = "DOWN"
        /\ last.ret = 1 =>
              /\ last.done = 1
              /\ last.fail = << >>
              /\ rkb_state = "UP"
        /\ last.ret = 0 =>
              /\ last.done = 0
              /\ last.fail = << >>
              /\ rkb_state = "CONNECT"
\* The handshake completed against a peer that sent no certificate, with
\* verification enabled: the step is fatal and the broker was told once.
C18_Witness ==
    /\ last.op = "handshake" /\ ~last.ub
    /\ rk_conf.enable_verify
    /\ ssl.phase = "done" /\ ~ssl.peer_cert
    /\ last.ret = -1
    /\ last.fail = << <<"Broker did not provide a certificate">> >>
    /\ last.done = 0

\* The fields of the context that carry policy and trust material.
SharedFields(c) ==
    [verify_mode |-> c.verify_mode, verify_cb |-> c.verify_cb,
     life |-> c.life, cert |-> c.cert, key |-> c.key, ca |-> c.ca,
     crl |-> c.crl, partial_write |-> c.partial_write]

\* C19: once the context is constructed, no connect, handshake step, send,
\* recv or close, on this thread's session or on another thread's, in any
\* interleaving, changes rk_conf (the context handle and the policy) or the
\* policy and trust material of the context; the context's reference count
\* is all that changes (checked under SpecShared).
C19_SharedConfigurationUnchanged ==
    [][/\ rk_conf' = rk_conf
       /\ SharedFields(ctx') = SharedFields(ctx)
       /\ ctx'.refs = 1 + (IF rktrans_ssl' = "SSL" THEN 1 ELSE 0)
                        + Cardinality({ t \in 1..MaxOthers :
                                          others'[t] # "none" })]_vars
\* This thread received on its established session while another thread's
\* session on the same context is established too.
C19_Witness ==
    /\ last.op = "recv" /\ last.ret > 0
    /\ rktrans_ssl = "SSL" /\ rkb_state = "UP"
    /\ \E t \in 1..MaxOthers : others[t] = "up"
    /\ ctx.refs >= 3
    /\ rk_conf.ctx = "CTX"
    /\ SharedFields(ctx) = SharedFields(SSL_CTX_set_verify(BuiltCtx, rk_conf))

\* The steps that are not a send or recv call: the protocol layer hands over
\* a new slice (a send that moved the slice wrote to the wire) or a new
\* buffer (a recv that moved the buffer took bytes), or the peer sends.
IoCallerStep ==
    \/ slice' # slice /\ wire' = wire
    \/ rbuf' # rbuf /\ inbound' = inbound
    \/ inbound' > inbound

\* The transfers that succeeded in the call that moved cursor c from pos0:
\* one for every chunk it went through to its end, and one more when it
\* stopped inside a chunk (a short transfer).
EndedShort(c, pos0) == c.pos > pos0 /\ c.pos \notin c.ends
TransfersDone(c, pos0) ==
    Cardinality({ e \in c.ends : pos0 < e /\ e <= c.pos })
        + (IF EndedShort(c, pos0) THEN 1 ELSE 0)
ShortStopsCall(c) ==
    /\ last.nprim = TransfersDone(c, last.pos0)
                        + (IF last.serr # "none" THEN 1 ELSE 0)
    /\ EndedShort(c, last.pos0) =>
          /\ last.serr = "none"
          /\ last.ret = c.pos - last.pos0

\* C21: in one send (recv) call SSL_write (SSL_read) is invoked once for
\* every chunk moved whole, at most once more for a chunk moved in part and
\* never after that one: a call that stopped inside a chunk made no further
\* invocation, failed or not, and returns the bytes moved in the call
\* (checked under SpecIo on every send and every recv step).
C21_ShortTransferEndsCall ==
    [][~IoCallerStep =>
          /\ last'.op = "send" => ShortStopsCall(slice)'
          /\ last'.op = "recv" => ShortStopsCall(rbuf)']_vars
\* A send moved one chunk whole and the next one in part, in two
\* invocations of SSL_write.
C21_Witness ==
    /\ last.op = "send"
    /\ last.nprim = 2
    /\ last.ret >= 2
    /\ EndedShort(slice, last.pos0)
    /\ \E e \in slice.ends : last.pos0 < e /\ e < slice.pos

\* The conditions of the library that ask for the call to be made again
\* once the socket is ready, and the event each one waits for.
WouldBlock == {"WANT_READ", "WANT_WRITE", "WANT_CONNECT"}
Readiness(serr) == IF serr = "WANT_READ" THEN {"POLLIN"} ELSE {"POLLOUT"}

\* C22: a handshake step on a session that is handshaking calls
\* SSL_do_handshake exactly once; when the library wants I/O the step has
\* requested the matching event (POLLIN to read, POLLOUT to write or
\* connect), returns 0, has told the broker nothing, and leaves the
\* connection in its connecting state with the session in place and not
\* broken (checked under SpecHs).
C22_OneAttemptPerStep ==
    (last.op = "handshake" /\ ~last.ub) =>
        /\ last.nprim = 1
        /\ last.serr \in WouldBlock =>
              /\ last.ret = 0
              /\ last.poll = Readiness(last.serr)
              /\ last.fail = << >> /\ last.done = 0
              /\ rkb_state = "CONNECT"
              /\ rktrans_ssl = "SSL"
              /\ ssl.phase \notin {"none", "done", "dead"}
\* A handshake step after the peer's certificates were processed: the
\* library wants to read, and the step asked for POLLIN.
C22_Witness ==
    /\ last.op = "handshake" /\ ~last.ub
    /\ last.nprim = 1
    /\ last.serr = "WANT_READ"
    /\ last.ret = 0
    /\ last.poll = {"POLLIN"}
    /\ ssl.phase = "certs"
    /\ rkb_state = "CONNECT"

\* C23: in a hook invocation in which the application callback ran: when it
\* rejected, the hook returns 0 and the chain's error code is the value the
\* callback left; when it accepted, the hook returns 1 and the chain's error
\* code is reset to X509_V_OK if it was something else before the callback
\* and the callback left X509_V_OK, and is what it was before the callback
\* in every other case (checked under SpecHook).
C23_HookErrorCode ==
    (last.op = "cert_verify_cb" /\ last.hook.app.fail = "none") =>
        LET h == last.hook
        IN  /\ ssl.verify_result = h.error
            /\ last.ret = h.ret
            /\ h.app.ok = 0 => h.ret = 0 /\ h.error = h.app.err
            /\ h.app.ok = 1 =>
                  /\ h.ret = 1
                  /\ h.error = IF h.orig # X509_V_OK /\ h.app.err = X509_V_OK
                               THEN X509_V_OK ELSE h.orig
\* The callback accepted an expired certificate and left its own error
\* code: the chain's error code stays the library's.
C23_Witness ==
    /\ last.op = "cert_verify_cb"
    /\ last.hook.app = [fail |-> "none", ok |-> 1,
                        err |-> "APPLICATION_VERIFICATION"]
    /\ last.hook.orig = "CERT_HAS_EXPIRED"
    /\ last.ret = 1
    /\ ssl.verify_result = "CERT_HAS_EXPIRED"

\* C24: the context constructed for a configuration has the hook registered
\* exactly when an application verification callback is configured,
\* whether enable_verify is set or not; without a callback no handshake
\* invokes the hook, and with one the hook has been invoked once the
\* library has processed the peer's certificates (checked under SpecHs).
C24_HookIffCallback ==
    /\ ctx.verify_cb = rk_conf.cert_verify_cb
    /\ ctx.verify_mode = IF rk_conf.enable_verify THEN "PEER" ELSE "NONE"
    /\ ~rk_conf.cert_verify_cb => ssl.hooks = 0 /\ last.hooks = << >>
    /\ (rk_conf.cert_verify_cb /\ ssl.phase \in {"certs", "done"}
          /\ peer.chain # << >>) => ssl.hooks >= 1
\* Peer verification is off and a callback is configured: the hook is
\* registered and the handshake step that processed the peer's two
\* certificates invoked it for both.
C24_Witness ==
    /\ ~rk_conf.enable_verify /\ rk_conf.cert_verify_cb
    /\ ctx.verify_mode = "NONE" /\ ctx.verify_cb
    /\ last.op = "handshake"
    /\ Len(last.hooks) = 2
    /\ ssl.hooks = 2

\* C25: the password callback returns -1 exactly when no ssl.key.password is
\* configured; otherwise the value it returns is the number of bytes it
\* placed in the buffer, which is at most the buffer's size (checked under
\* SpecPasswd).
C25_PasswordLength ==
    last.op = "passwd_cb" =>
        /\ last.ret = -1 <=> rk_conf.key_password = NoPassword
        /\ last.buf.placed <= last.buf.size
        /\ last.ret # -1 =>
              /\ last.ret = last.buf.placed
              /\ last.ret <= last.buf.size

\* C26: when the loader has installed a private key given as in-memory PEM
\* text (ssl.key.pem), the text has been scrubbed when the loader returns,
\* whether the loader succeeds or fails at a later source (checked under
\* SpecLoader).
C26_InstalledPemKeyScrubbed ==
    (last.op = "ctx_init" /\ "ssl.key.pem" \in last.load.installed)
        => rk_conf.key_pem_scrubbed

\* A loader that installed the PEM key and failed at a later source (the
\* archive or the key check), with the text scrubbed.
C26_Witness ==
    /\ last.op = "ctx_init"
    /\ "ssl.key.pem" \in last.load.installed
    /\ last.ret = -1
    /\ last.load.fault \in {"keystore_open", "keystore_read",
                             "keystore_parse", "keystore_cert",
                             "keystore_key", "none"}
    /\ rk_conf.key_pem_scrubbed

\* C27: in send, receive, session open and every handshake step the error
\* queue and the OS error are clear when the primitive is invoked, so that
\* a failure is classified from what the failing invocation itself left
\* (checked under SpecShared).
C27_ClearedBeforePrimitive ==
    (last.op \in {"send", "recv", "connect", "handshake"} /\ ~last.ub
       /\ last.serr # "none") =>
        /\ last.stale.queue = << >>
        /\ last.stale.errno = 0

\* C28: on a session open the expected peer name is set on the session if
\* and only if endpoint identification is enabled, and SSL_connect is
\* invoked only when the socket was bound and the name setup succeeded; an
\* open that failed before that returns -1 without a handshake attempt
\* (checked under SpecHs).
C28_OpenSetsHostThenHandshakes ==
    (last.op = "connect" /\ ~last.ub) =>
        /\ ssl.host # NoName => rk_conf.endpoint_identification # "NONE"
        /\ last.nprim \in {0, 1}
        /\ last.nprim = 1 =>
              /\ rktrans_ssl = "SSL"
              /\ ssl.fd
              /\ rk_conf.endpoint_identification # "NONE" =>
                    ssl.host = EndpointName(rkb_nodename)
        /\ last.nprim = 0 =>
              /\ last.ret = -1
              /\ ssl.phase \in {"none", "new"}
              /\ ~ssl.peer_cert
              /\ last.done = 0
              /\ last.poll = {}
        /\ (~ssl.fd \/ (rk_conf.endpoint_identification # "NONE"
                          /\ ssl.host = NoName)) => last.nprim = 0

\* An open with identification on that set the name and started the
\* handshake.
C28_Witness ==
    /\ last.op = "connect"
    /\ rk_conf.endpoint_identification = "HTTPS"
    /\ last.nprim = 1
    /\ ssl.fd
    /\ ssl.host = EndpointName(rkb_nodename)
    /\ ssl.host # NoName

\* C29: a send (recv) call that returns n >= 0 has advanced the slice's
\* read position (the buffer's write position) by exactly n, and the
\* assertion after rd_slice_read (the write consumed no more than the slice
\* offered) never fails (checked under SpecIo on every send and recv step).
C29_PositionAdvancedByReturn ==
    [][~IoCallerStep =>
          /\ crashed' # "assert"
          /\ (last'.op = "send" /\ ~last'.ub /\ last'.ret >= 0) =>
                /\ slice'.pos - slice.pos = last'.ret
                /\ last'.pos0 = slice.pos
          /\ (last'.op = "recv" /\ ~last'.ub /\ last'.ret >= 0) =>
                /\ rbuf'.pos - rbuf.pos = last'.ret
                /\ last'.pos0 = rbuf.pos]_vars

\* A recv call that took bytes in two invocations and then met a failing
\* one: it returns the bytes taken and the buffer has moved by as many.
C29_Witness ==
    /\ last.op = "recv"
    /\ last.nprim = 3
    /\ last.serr = "WANT_READ"
    /\ last.ret = 2
    /\ rbuf.pos - last.pos0 = 2

\* C30: a send, recv, connect or handshake call whose primitive failed and
\* which did not end in a fatal outcome has requested a readiness event with
\* rd_kafka_transport_poll_set during the call: POLLIN or POLLOUT (checked
\* under SpecShared).
C30_ReadinessRequested ==
    (last.op \in {"send", "recv", "connect", "handshake"} /\ ~last.ub
       /\ last.serr # "none" /\ last.ret # -1) =>
        /\ last.poll \in {{"POLLIN"}, {"POLLOUT"}}
        /\ last.fail = << >>
        /\ last.serr \in WouldBlock

\* A send that moved nothing because SSL_write wants the socket writable.
C30_Witness ==
    /\ last.op = "send"
    /\ last.nprim = 1
    /\ last.serr = "WANT_WRITE"
    /\ last.ret = 0
    /\ last.poll = {"POLLOUT"}

\* C31: a construction that fails leaves rk_conf.ssl.ctx as it was (no
\* context is published) and has released the context it made exactly once;
\* rk_conf.ssl.ctx is set only by a construction that succeeds, after every
\* configured source was installed and the key check passed (checked under
\* SpecLoader on every rd_kafka_ssl_ctx_init step).
C31_PublishedOnlyOnSuccess ==
    [][last'.op = "ctx_init" =>
          /\ last'.ret \in {-1, 0}
          /\ last'.ret = -1 =>
                /\ rk_conf'.ctx = rk_conf.ctx
                /\ rk_conf'.ctx = "NULL"
                /\ ctx'.life = "freed"
                /\ ctx'.frees = IF last'.load.fault = "ctx_new" THEN 0 ELSE 1
          /\ last'.ret = 0 =>
                /\ rk_conf'.ctx = "CTX"
                /\ ctx'.life = "built"
                /\ ctx'.frees = 0
                /\ last'.load.steps = ConfiguredSteps'
                /\ last'.load.check # "failed"
                /\ last'.load.installed # {} => last'.load.check = "ok"
          /\ rk_conf'.ctx # rk_conf.ctx => last'.ret = 0]_vars

\* A construction that installed a certificate and its key and failed at a
\* later source: nothing is published and the context was released once.
C31_Witness ==
    /\ last.op = "ctx_init"
    /\ last.ret = -1
    /\ last.load.installed # {}
    /\ rk_conf.ctx = "NULL"
    /\ ctx.life = "freed"
    /\ ctx.frees = 1

\* What rd_kafka_ssl_init and rd_kafka_ssl_term may change of the process.
LockingState(cr) ==
    [locking_cb |-> cr.locking_cb, threadid_cb |-> cr.threadid_cb,
     locks |-> cr.locks, mutexes |-> cr.mutexes, leaked |-> cr.leaked]
\* Another party's callbacks are in place after the step as before.
OthersCallbacksKept ==
    /\ crypto.locking_cb = "other" => crypto'.locking_cb = "other"
    /\ crypto.threadid_cb = "other" => crypto'.threadid_cb = "other"
InitOnlyWhenNoLocking ==
    last'.op = "ssl_init" =>
        /\ crypto.locking_cb # "NULL" =>
              LockingState(crypto') = LockingState(crypto)
        /\ crypto'.locks = "ALLOC" /\ crypto'.locks # crypto.locks =>
              crypto.locking_cb = "NULL"
TermOnlyWhenOwn ==
    last'.op = "ssl_term" =>
        /\ crypto.locking_cb # "rdkafka" =>
              LockingState(crypto') = LockingState(crypto)
        /\ crypto.locking_cb = "rdkafka" =>
              /\ crypto'.locking_cb = "NULL"
              /\ crypto'.locks = "FREED"
              /\ crypto'.mutexes = {}
TableNeverLostNorFreedTwice ==
    /\ crypto'.leaked = crypto.leaked
    /\ ~crypto'.freed_twice

\* C32: on a build that needs explicit locking, over every sequence of
\* rd_kafka_ssl_init and rd_kafka_ssl_term calls: init installs and
\* allocates only when no locking callback is installed, term uninstalls and
\* frees only when the locking callback is this file's, a callback of
\* another party is never replaced or removed, the lock table is never
\* allocated again while one is allocated and never freed twice (checked
\* under SpecGlobal on every init and term step).
C32_InitTermGuards ==
    [][(crypto.legacy /\ last'.op \in {"ssl_init", "ssl_term"}) =>
          /\ InitOnlyWhenNoLocking
          /\ TermOnlyWhenOwn
          /\ OthersCallbacksKept
          /\ TableNeverLostNorFreedTwice]_vars

====
